---- MODULE Spec2Model ----
(***************************************************************************)
(* A model of the BSL-PSD skyline solver (src/src/algorithms/bsl_psd.rs)   *)
(* and of the route / store / shopping-list types it works on.             *)
(*                                                                         *)
(* Numbers.  Time and Cost are f64 in the program.  Here they are          *)
(* integers: coordinates and travel times are given in thousandths, costs  *)
(* in whole units, and f64::INFINITY is the value Inf, which absorbs       *)
(* addition (FAdd) and is greater than every finite value.                 *)
(***************************************************************************)
EXTENDS Integers, Sequences, FiniteSets, TLC

VARIABLES
    stores,             \* BSLPSD.stores : StoreId -> Store
    travel_times,       \* BSLPSD.travel_times : (StoreId, StoreId) -> Time (partial)
    product_to_stores,  \* BSLPSD.product_to_stores : ProductId -> Vec<(StoreId, Cost)>
    query,              \* the arguments of solve_with_parallel
    pc,                 \* position of the caller's thread
    min_cost,           \* sc_upper_bound, the value of find_min_cost_route
    dj,                 \* locals of find_min_time_route_dijkstra
    min_time_route,     \* the route R0 returned by find_min_time_route_dijkstra
    found_upper_bound,  \* the AtomicBool termination flag
    chan,               \* the mpsc channel: routes sent and not yet received
    workers,            \* the two expansion threads: pc, queue, visited_route, current candidate
    linear_skyline,     \* the aggregator's Vec<ShoppingRoute>
    unchanged_count,    \* the aggregator's counter
    route,              \* the route last passed to update_skyline
    update,             \* the value update_skyline last returned
    result,             \* the list solve_with_parallel returned
    returned            \* the lists returned by the earlier invocations on this solver

vars == << stores, travel_times, product_to_stores, query, pc, min_cost, dj,
           min_time_route, found_upper_bound, chan, workers, linear_skyline,
           unchanged_count, route, update, result, returned >>

(***************************************************************************)
(* f64 arithmetic                                                          *)
(***************************************************************************)
Inf == 1000000000

FAdd(a, b) == IF a >= Inf \/ b >= Inf THEN Inf ELSE a + b

Min(a, b) == IF a <= b THEN a ELSE b

RECURSIVE SqrtBetween(_, _, _)
SqrtBetween(lo, hi, n) ==
    IF lo >= hi THEN lo
    ELSE LET mid == (lo + hi + 1) \div 2
         IN  IF mid * mid <= n THEN SqrtBetween(mid, hi, n)
                               ELSE SqrtBetween(lo, mid - 1, n)

\* f64::sqrt, rounded down to the model's resolution
Sqrt(n) == SqrtBetween(0, 46340, n)

(***************************************************************************)
(* models::Location, models::Store, models::ShoppingRoute                  *)
(***************************************************************************)
Location(x, y) == [x |-> x, y |-> y]

distance_to(a, b) == Sqrt((a.x - b.x) * (a.x - b.x) + (a.y - b.y) * (a.y - b.y))

has_product(store, product_id) == product_id \in DOMAIN store.products

get_product_cost(store, product_id) ==
    IF product_id \in DOMAIN store.products
    THEN [some |-> TRUE, val |-> store.products[product_id]]
    ELSE [some |-> FALSE, val |-> 0]

\* Mutation of get_inventory_level: every product a store sells is in stock
\* without limit
unlimited_stock(store, product_id) ==
    IF product_id \in DOMAIN store.products THEN 1000 ELSE 0

get_inventory_level(store, product_id) ==
    IF product_id \in DOMAIN store.inventory THEN store.inventory[product_id] ELSE 0

unwrap_or(opt, default) == IF opt.some THEN opt.val ELSE default

conventionally_dominates(self, other) ==
    LET condition1 == self.shopping_time < other.shopping_time
                      /\ self.shopping_cost <= other.shopping_cost
        condition2 == self.shopping_time <= other.shopping_time
                      /\ self.shopping_cost < other.shopping_cost
        condition3 == self.shopping_time = other.shopping_time
                      /\ self.shopping_cost = other.shopping_cost
                      /\ Len(self.stores) < Len(other.stores)
    IN  condition1 \/ condition2 \/ condition3

(***************************************************************************)
(* Helpers over sets and sequences                                         *)
(***************************************************************************)
Range(s) == { s[i] : i \in DOMAIN s }

RECURSIVE SumOver(_, _)
SumOver(f, S) ==
    IF S = {} THEN 0
    ELSE LET p == CHOOSE q \in S : TRUE
         IN  FAdd(f[p], SumOver(f, S \ {p}))

\* The orders in which a HashMap or HashSet over S can be iterated.
IterationOrders(S) ==
    { s \in [1 .. Cardinality(S) -> S] : \A i, j \in DOMAIN s : i # j => s[i] # s[j] }

Some(v) == [some |-> TRUE, val |-> v]

None == [some |-> FALSE, val |-> 0]

(***************************************************************************)
(* Cost optimizer: can_fulfill_shopping_list, calculate_shopping_cost      *)
(***************************************************************************)
\* The loop of can_fulfill_shopping_list for one product: what is still
\* needed of product_id after walking the route.
RECURSIVE remaining_after(_, _, _)
remaining_after(rt, product_id, remaining_qty) ==
    IF rt = <<>> THEN remaining_qty
    ELSE LET store == stores[Head(rt)]
             left  == IF remaining_qty > 0 /\ has_product(store, product_id)
                      THEN remaining_qty
                           - Min(get_inventory_level(store, product_id), remaining_qty)
                      ELSE remaining_qty
         IN  remaining_after(Tail(rt), product_id, left)

can_fulfill_shopping_list(rt, shopping_list) ==
    \A product_id \in DOMAIN shopping_list :
        remaining_after(rt, product_id, shopping_list[product_id]) = 0

\* The options gathered for one product, in route order.
RECURSIVE product_options(_, _)
product_options(rt, product_id) ==
    IF rt = <<>> THEN <<>>
    ELSE LET store == stores[Head(rt)]
             rest  == product_options(Tail(rt), product_id)
             available_qty == get_inventory_level(store, product_id)
         IN  IF has_product(store, product_id) /\ available_qty > 0
             THEN << [store_id |-> Head(rt),
                      cost |-> unwrap_or(get_product_cost(store, product_id), Inf),
                      qty |-> available_qty] >> \o rest
             ELSE rest

\* Mutation of insert_by_cost: the dearest option comes first
RECURSIVE insert_dearest_first(_, _)
insert_dearest_first(sorted, o) ==
    IF sorted = <<>> THEN << o >>
    ELSE IF o.cost > Head(sorted).cost THEN << o >> \o sorted
    ELSE << Head(sorted) >> \o insert_dearest_first(Tail(sorted), o)

\* Mutation of sort_by_cost: the options stay in route order
route_order(options) == options

\* slice::sort_by on the cost: a stable sort
RECURSIVE insert_by_cost(_, _)
insert_by_cost(sorted, o) ==
    IF sorted = <<>> THEN << o >>
    ELSE IF o.cost < Head(sorted).cost THEN << o >> \o sorted
    ELSE << Head(sorted) >> \o insert_by_cost(Tail(sorted), o)

RECURSIVE sort_by_cost(_)
sort_by_cost(options) ==
    IF options = <<>> THEN <<>>
    ELSE insert_by_cost(sort_by_cost(SubSeq(options, 1, Len(options) - 1)),
                        options[Len(options)])

\* The purchase loop of calculate_shopping_cost for one product.
RECURSIVE allocate(_, _)
allocate(options, remaining_qty) ==
    IF options = <<>> THEN [total |-> 0, remaining |-> remaining_qty]
    ELSE LET o == Head(options)
             purchase_qty == Min(o.qty, remaining_qty)
         IN  IF purchase_qty > 0
             THEN IF remaining_qty - purchase_qty = 0
                  THEN [total |-> o.cost * purchase_qty, remaining |-> 0]
                  ELSE LET r == allocate(Tail(options), remaining_qty - purchase_qty)
                       IN  [total |-> FAdd(o.cost * purchase_qty, r.total),
                            remaining |-> r.remaining]
             ELSE allocate(Tail(options), remaining_qty)

calculate_shopping_cost(rt, shopping_list) ==
    IF ~ can_fulfill_shopping_list(rt, shopping_list) THEN Inf
    ELSE LET bought == [product_id \in DOMAIN shopping_list |->
                           allocate(sort_by_cost(product_options(rt, product_id)),
                                    shopping_list[product_id])]
         IN  IF \E product_id \in DOMAIN shopping_list : bought[product_id].remaining > 0
             THEN Inf
             ELSE SumOver([product_id \in DOMAIN shopping_list |-> bought[product_id].total],
                          DOMAIN shopping_list)

(***************************************************************************)
(* satisfies_list_with_inventory                                           *)
(***************************************************************************)
\* available_inventory after the first loop: an entry exists for a product
\* as soon as one store of the route has it, and sums the inventory levels
\* of the route's entries.
RECURSIVE available_inventory(_, _)
available_inventory(rt, product_id) ==
    IF rt = <<>> THEN [some |-> FALSE, val |-> 0]
    ELSE LET store == stores[Head(rt)]
             rest  == available_inventory(Tail(rt), product_id)
         IN  IF has_product(store, product_id)
             THEN [some |-> TRUE,
                   val |-> get_inventory_level(store, product_id) + rest.val]
             ELSE rest

\* Mutation of satisfies_list_with_inventory: no route is found to satisfy
never_satisfied(rt, shopping_list) == FALSE

satisfies_list_with_inventory(rt, shopping_list) ==
    \A product_id \in DOMAIN shopping_list :
        LET available_qty == available_inventory(rt, product_id)
        IN  available_qty.some /\ ~ (available_qty.val < shopping_list[product_id])

(***************************************************************************)
(* Inverted index and cost lower bound                                     *)
(***************************************************************************)
\* The entries pushed for one product when the stores are visited in the
\* order iter (the iteration order of the HashMap).
RECURSIVE index_entries(_, _)
index_entries(iter, product_id) ==
    IF iter = <<>> THEN <<>>
    ELSE LET store == stores[Head(iter)]
             rest  == index_entries(Tail(iter), product_id)
         IN  IF has_product(store, product_id) /\ get_inventory_level(store, product_id) > 0
             THEN << [store_id |-> Head(iter), cost |-> store.products[product_id]] >> \o rest
             ELSE rest

\* Mutation of build_inverted_list: the index is not cleared before the
\* entries are pushed
build_inverted_list_without_clear(iter) ==
    LET sold == { product_id \in UNION { DOMAIN stores[s].products : s \in DOMAIN stores } :
                    index_entries(iter, product_id) # <<>> }
    IN  [product_id \in sold \cup DOMAIN product_to_stores |->
            sort_by_cost((IF product_id \in DOMAIN product_to_stores
                          THEN product_to_stores[product_id] ELSE <<>>)
                         \o index_entries(iter, product_id))]

build_inverted_list(iter) ==
    LET sold == { product_id \in UNION { DOMAIN stores[s].products : s \in DOMAIN stores } :
                    index_entries(iter, product_id) # <<>> }
    IN  [product_id \in sold |-> sort_by_cost(index_entries(iter, product_id))]

\* The inventory summed over the index entries of one product.
RECURSIVE index_available(_, _)
index_available(entries, product_id) ==
    IF entries = <<>> THEN 0
    ELSE get_inventory_level(stores[Head(entries).store_id], product_id)
         + index_available(Tail(entries), product_id)

\* The options of find_min_cost_route for one product.
RECURSIVE index_options(_, _)
index_options(entries, product_id) ==
    IF entries = <<>> THEN <<>>
    ELSE LET store == stores[Head(entries).store_id]
             rest  == index_options(Tail(entries), product_id)
             available_qty == get_inventory_level(store, product_id)
         IN  IF available_qty > 0
             THEN << [store_id |-> Head(entries).store_id,
                      cost |-> unwrap_or(get_product_cost(store, product_id), Inf),
                      qty |-> available_qty] >> \o rest
             ELSE rest

\* The purchase loop of find_min_cost_route for one product.
RECURSIVE allocate_min_cost(_, _)
allocate_min_cost(options, remaining_qty) ==
    IF options = <<>> THEN 0
    ELSE LET o == Head(options)
             purchase_qty == Min(o.qty, remaining_qty)
             spent == IF purchase_qty > 0 THEN o.cost * purchase_qty ELSE 0
         IN  IF remaining_qty - purchase_qty = 0 THEN spent
             ELSE FAdd(spent, allocate_min_cost(Tail(options), remaining_qty - purchase_qty))

index_of(product_id) ==
    IF product_id \in DOMAIN product_to_stores THEN product_to_stores[product_id] ELSE <<>>

find_min_cost_route(shopping_list) ==
    IF \E product_id \in DOMAIN shopping_list :
           index_available(index_of(product_id), product_id) < shopping_list[product_id]
    THEN [some |-> FALSE, val |-> 0]
    ELSE [some |-> TRUE,
          val |-> SumOver([product_id \in DOMAIN shopping_list |->
                              allocate_min_cost(
                                  sort_by_cost(index_options(index_of(product_id), product_id)),
                                  shopping_list[product_id])],
                          DOMAIN shopping_list)]

(***************************************************************************)
(* Route expander                                                          *)
(***************************************************************************)
\* travel_times.get(&(a, b)).cloned().unwrap_or(default)
travel_time_or(a, b, default) ==
    IF << a, b >> \in DOMAIN travel_times THEN travel_times[<< a, b >>] ELSE default

\* Mutation of detour_from: a missing matrix entry counts as zero
detour_from_or_zero(from_store, store_id) ==
    IF from_store.some THEN travel_time_or(from_store.val, store_id, 0) ELSE 0

detour_from(from_store, store_id) ==
    IF from_store.some THEN travel_time_or(from_store.val, store_id, Inf) ELSE 0

\* Mutation of find_min_detour_store: any reachable store outside the route,
\* not the nearest
find_any_reachable_store(from_store, visited_stores) ==
    { s \in DOMAIN stores \ visited_stores : detour_from(from_store, s) < Inf }

\* The stores the loop of find_min_detour_store can return: it keeps the
\* first store, in the HashMap's iteration order, whose detour is the
\* smallest and below INFINITY.  The empty set stands for None.
find_min_detour_store(from_store, visited_stores) ==
    { s \in DOMAIN stores \ visited_stores :
        /\ detour_from(from_store, s) < Inf
        /\ \A t \in DOMAIN stores \ visited_stores :
               detour_from(from_store, s) <= detour_from(from_store, t) }

\* Mutation of find_next_min_detour_store: the stores already in the route
\* are not skipped
find_next_min_detour_store_among_all(from_store, visited_stores, current_min_detour_store) ==
    LET current_detour == detour_from(from_store, current_min_detour_store)
        eligible == { s \in DOMAIN stores \ {current_min_detour_store} :
                        /\ detour_from(from_store, s) > current_detour
                        /\ detour_from(from_store, s) < Inf }
    IN  { s \in eligible :
            \A t \in eligible : detour_from(from_store, s) <= detour_from(from_store, t) }

\* The stores the loop of find_next_min_detour_store can return.
find_next_min_detour_store(from_store, visited_stores, current_min_detour_store) ==
    LET current_detour == detour_from(from_store, current_min_detour_store)
        eligible == { s \in DOMAIN stores \ (visited_stores \cup {current_min_detour_store}) :
                        /\ detour_from(from_store, s) > current_detour
                        /\ detour_from(from_store, s) < Inf }
    IN  { s \in eligible :
            \A t \in eligible : detour_from(from_store, s) <= detour_from(from_store, t) }

Last(s) == s[Len(s)]

Front(s) == SubSeq(s, 1, Len(s) - 1)

\* route.stores.get(route.stores.len().saturating_sub(2))
second_last_of(rt_stores) ==
    IF Len(rt_stores) >= 2 THEN rt_stores[Len(rt_stores) - 1] ELSE rt_stores[1]

RouteCandidate(rt_stores, shopping_time) ==
    [stores |-> rt_stores, shopping_time |-> shopping_time]

\* Case 1 of generate_next_routes: the candidates it can push, each as a
\* sequence of zero or one element.
append_routes(candidate) ==
    LET visited_stores == Range(candidate.stores)
    IN  IF candidate.stores # <<>>
        THEN LET last_store == Last(candidate.stores)
                 found == find_min_detour_store(Some(last_store), visited_stores)
             IN  IF found = {} THEN { <<>> }
                 ELSE { << RouteCandidate(
                             Append(candidate.stores, m),
                             FAdd(candidate.shopping_time,
                                  travel_time_or(last_store, m, Inf))) >> : m \in found }
        ELSE LET found == find_min_detour_store(None, visited_stores)
             IN  IF found = {} THEN { <<>> }
                 ELSE { << RouteCandidate(<< m >>, 0) >> : m \in found }

\* Case 2 of generate_next_routes.
swap_routes(candidate) ==
    IF Len(candidate.stores) >= 1
    THEN LET last_store == Last(candidate.stores)
             visited_stores == Range(candidate.stores) \ {last_store}
             second_last_store == second_last_of(candidate.stores)
             found == find_next_min_detour_store(Some(second_last_store), visited_stores,
                                                 last_store)
             old_detour == travel_time_or(second_last_store, last_store, 0)
         IN  IF found = {} THEN { <<>> }
             ELSE { << RouteCandidate(
                         Append(Front(candidate.stores), n),
                         FAdd(candidate.shopping_time - old_detour,
                              travel_time_or(second_last_store, n, Inf))) >> : n \in found }
    ELSE { <<>> }

\* The vectors generate_next_routes can return.
generate_next_routes(candidate) ==
    { a \o s : a \in append_routes(candidate), s \in swap_routes(candidate) }

(***************************************************************************)
(* Route expander with reordering                                          *)
(***************************************************************************)
RemoveAt(s, i) == SubSeq(s, 1, i - 1) \o SubSeq(s, i + 1, Len(s))

\* generate_permutations, in the order it pushes them
RECURSIVE generate_permutations(_)
RECURSIVE permutations_from(_, _)
permutations_from(rt_stores, i) ==
    IF i > Len(rt_stores) THEN <<>>
    ELSE LET tails == generate_permutations(RemoveAt(rt_stores, i))
         IN  [k \in 1 .. Len(tails) |-> << rt_stores[i] >> \o tails[k]]
             \o permutations_from(rt_stores, i + 1)

generate_permutations(rt_stores) ==
    IF rt_stores = <<>> THEN << <<>> >> ELSE permutations_from(rt_stores, 1)

RECURSIVE legs_time(_, _)
legs_time(path, i) ==
    IF i >= Len(path) THEN 0
    ELSE LET leg == IF << path[i], path[i + 1] >> \in DOMAIN travel_times
                    THEN travel_times[<< path[i], path[i + 1] >>]
                    ELSE distance_to(stores[path[i]].location, stores[path[i + 1]].location)
         IN  FAdd(leg, legs_time(path, i + 1))

calculate_total_time(path, shopper_location, customer_location) ==
    IF path = <<>> THEN distance_to(shopper_location, customer_location)
    ELSE FAdd(FAdd(distance_to(shopper_location, stores[path[1]].location),
                   legs_time(path, 1)),
              distance_to(stores[Last(path)].location, customer_location))

\* PSDSolver::calculate_shopping_time: a missing leg costs +inf
RECURSIVE matrix_legs_time(_, _)
matrix_legs_time(rt, i) ==
    IF i >= Len(rt) THEN 0
    ELSE FAdd(travel_time_or(rt[i], rt[i + 1], Inf), matrix_legs_time(rt, i + 1))

calculate_shopping_time(rt, shopper_location, customer_location) ==
    IF rt = <<>> THEN 0
    ELSE FAdd(FAdd(distance_to(shopper_location, stores[rt[1]].location),
                   matrix_legs_time(rt, 1)),
              distance_to(stores[Last(rt)].location, customer_location))

\* The de-duplication loop shared by find_shortest_path and
\* generate_next_routes_shuffle: the first occurrence of each store.
RECURSIVE unique_stores(_, _)
unique_stores(rt_stores, seen) ==
    IF rt_stores = <<>> THEN <<>>
    ELSE IF Head(rt_stores) \in seen THEN unique_stores(Tail(rt_stores), seen)
    ELSE << Head(rt_stores) >> \o unique_stores(Tail(rt_stores), seen \cup {Head(rt_stores)})

\* The scan of find_shortest_path: the first permutation whose time is
\* strictly below everything before it.
RECURSIVE best_permutation(_, _, _, _, _)
best_permutation(perms, best_path, min_time, shopper_location, customer_location) ==
    IF perms = <<>> THEN best_path
    ELSE LET time == calculate_total_time(Head(perms), shopper_location, customer_location)
         IN  IF time < min_time
             THEN best_permutation(Tail(perms), Head(perms), time,
                                   shopper_location, customer_location)
             ELSE best_permutation(Tail(perms), best_path, min_time,
                                   shopper_location, customer_location)

find_shortest_path(rt_stores, shopper_location, customer_location) ==
    IF rt_stores = <<>> THEN <<>>
    ELSE IF Len(rt_stores) = 1 THEN rt_stores
    ELSE best_permutation(generate_permutations(unique_stores(rt_stores, {})),
                          <<>>, Inf, shopper_location, customer_location)

\* A successor of generate_next_routes_shuffle: the reordered store list
\* with its recomputed time, dropped when the time is infinite.
optimized_candidate(new_route, shopper_location, customer_location) ==
    LET optimized_route == find_shortest_path(new_route, shopper_location, customer_location)
        shopping_time == calculate_total_time(optimized_route, shopper_location,
                                              customer_location)
    IN  IF shopping_time < Inf
        THEN << RouteCandidate(optimized_route, shopping_time) >>
        ELSE <<>>

has_duplicates(rt_stores) == \E i, j \in DOMAIN rt_stores : i # j /\ rt_stores[i] = rt_stores[j]

append_routes_shuffle(candidate, shopper_location, customer_location) ==
    LET visited_stores == Range(candidate.stores)
    IN  IF candidate.stores # <<>>
        THEN LET found == find_min_detour_store(Some(Last(candidate.stores)), visited_stores)
             IN  IF found = {} THEN { <<>> }
                 ELSE { IF m \notin visited_stores
                        THEN optimized_candidate(Append(candidate.stores, m),
                                                 shopper_location, customer_location)
                        ELSE <<>> : m \in found }
        ELSE LET found == find_min_detour_store(None, visited_stores)
             IN  IF found = {} THEN { <<>> }
                 ELSE { LET shopping_time == calculate_total_time(<< m >>, shopper_location,
                                                                  customer_location)
                        IN  IF shopping_time < Inf
                            THEN << RouteCandidate(<< m >>, shopping_time) >>
                            ELSE <<>> : m \in found }

swap_routes_shuffle(candidate, shopper_location, customer_location) ==
    IF Len(candidate.stores) >= 1
    THEN LET last_store == Last(candidate.stores)
             visited_without_last == Range(candidate.stores) \ {last_store}
             found == find_next_min_detour_store(Some(second_last_of(candidate.stores)),
                                                 visited_without_last, last_store)
         IN  IF found = {} THEN { <<>> }
             ELSE { IF n \notin visited_without_last
                    THEN optimized_candidate(Append(Front(candidate.stores), n),
                                             shopper_location, customer_location)
                    ELSE <<>> : n \in found }
    ELSE { <<>> }

\* The vectors generate_next_routes_shuffle can return.
generate_next_routes_shuffle(candidate, shopper_location, customer_location) ==
    IF has_duplicates(candidate.stores)
    THEN { optimized_candidate(unique_stores(candidate.stores, {}),
                               shopper_location, customer_location) }
    ELSE { a \o s : a \in append_routes_shuffle(candidate, shopper_location, customer_location),
                    s \in swap_routes_shuffle(candidate, shopper_location, customer_location) }

(***************************************************************************)
(* Skyline monitor                                                         *)
(***************************************************************************)
ShoppingRoute(rt_stores, shopping_time, shopping_cost) ==
    [stores |-> rt_stores, shopping_time |-> shopping_time, shopping_cost |-> shopping_cost]

\* Mutation of retain_not_dominated: the predicate of retain is inverted, the
\* entries the new route does not dominate are dropped
RECURSIVE retain_dominated(_, _)
retain_dominated(skyline, new_route) ==
    IF skyline = <<>> THEN <<>>
    ELSE IF conventionally_dominates(new_route, Head(skyline))
         THEN << Head(skyline) >> \o retain_dominated(Tail(skyline), new_route)
         ELSE retain_dominated(Tail(skyline), new_route)

\* skyline.retain(|existing_route| !route.conventionally_dominates(existing_route))
RECURSIVE retain_not_dominated(_, _)
retain_not_dominated(skyline, new_route) ==
    IF skyline = <<>> THEN <<>>
    ELSE IF conventionally_dominates(new_route, Head(skyline))
         THEN retain_not_dominated(Tail(skyline), new_route)
         ELSE << Head(skyline) >> \o retain_not_dominated(Tail(skyline), new_route)

\* Mutation of update_skyline: the entries the new route dominates are kept
update_skyline_without_retain(skyline, new_route) ==
    IF \E i \in DOMAIN skyline :
           conventionally_dominates(skyline[i], new_route) \/ skyline[i] = new_route
    THEN [skyline |-> skyline, updated |-> FALSE]
    ELSE [skyline |-> Append(skyline, new_route), updated |-> TRUE]

\* Mutation of update_skyline: a route equal to an entry is inserted again
update_skyline_without_equality(skyline, new_route) ==
    IF \E i \in DOMAIN skyline : conventionally_dominates(skyline[i], new_route)
    THEN [skyline |-> skyline, updated |-> FALSE]
    ELSE [skyline |-> Append(retain_not_dominated(skyline, new_route), new_route),
          updated |-> TRUE]

\* update_skyline: the skyline it leaves and the value it returns
update_skyline(skyline, new_route) ==
    IF \E i \in DOMAIN skyline :
           conventionally_dominates(skyline[i], new_route) \/ skyline[i] = new_route
    THEN [skyline |-> skyline, updated |-> FALSE]
    ELSE [skyline |-> Append(retain_not_dominated(skyline, new_route), new_route),
          updated |-> TRUE]

\* linear_skyline.sort_by(shopping_time): a stable sort
RECURSIVE insert_by_time(_, _)
insert_by_time(sorted, r) ==
    IF sorted = <<>> THEN << r >>
    ELSE IF r.shopping_time < Head(sorted).shopping_time THEN << r >> \o sorted
    ELSE << Head(sorted) >> \o insert_by_time(Tail(sorted), r)

\* Mutation of sort_by_time: the skyline is handed back in insertion order
insertion_order(skyline) == skyline

RECURSIVE sort_by_time(_)
sort_by_time(skyline) ==
    IF skyline = <<>> THEN <<>>
    ELSE insert_by_time(sort_by_time(Front(skyline)), Last(skyline))

(***************************************************************************)
(* Time-optimal fulfilment search: find_min_time_route_dijkstra            *)
(***************************************************************************)
\* shopping_list.items.iter().collect(): the items in the map's iteration order
shopping_list_items(shopping_list) ==
    LET iter == CHOOSE o \in IterationOrders(DOMAIN shopping_list) : TRUE
    IN  [i \in DOMAIN iter |-> << iter[i], shopping_list[iter[i]] >>]

RECURSIVE insert_by_product(_, _)
insert_by_product(sorted, item) ==
    IF sorted = <<>> THEN << item >>
    ELSE IF item[1] < Head(sorted)[1] THEN << item >> \o sorted
    ELSE << Head(sorted) >> \o insert_by_product(Tail(sorted), item)

RECURSIVE sort_remaining_items(_)
sort_remaining_items(items) ==
    IF items = <<>> THEN <<>>
    ELSE insert_by_product(sort_remaining_items(Front(items)), Last(items))

\* The purchase loop over the remaining quantities at one store.
purchase_at(store, remaining) ==
    [i \in DOMAIN remaining |->
        LET product_id == remaining[i][1]
            qty_needed == remaining[i][2]
        IN  IF qty_needed > 0 /\ has_product(store, product_id)
            THEN << product_id,
                    qty_needed - Min(get_inventory_level(store, product_id), qty_needed) >>
            ELSE remaining[i]]

candidate_stores_of(shopping_list) ==
    { s \in DOMAIN stores : \E product_id \in DOMAIN shopping_list :
                                has_product(stores[s], product_id) }

\* The feasibility precheck: inventory summed over the candidate stores.
candidates_can_fulfill(candidates, shopping_list) ==
    \A product_id \in DOMAIN shopping_list :
        LET have == [s \in candidates |->
                        IF has_product(stores[s], product_id)
                        THEN get_inventory_level(stores[s], product_id) ELSE 0]
        IN  ~ (SumOver(have, candidates) < shopping_list[product_id])

QueueState(distance, store_id, remaining_items) ==
    [distance |-> distance, store_id |-> store_id, remaining_items |-> remaining_items]

NoState == [some |-> FALSE, val |-> << 0, <<>> >>]

DijkstraIdle ==
    [candidate_stores |-> {}, distances |-> <<>>, predecessors |-> <<>>,
     priority_queue |-> {}, visited |-> {}, best_time |-> Inf, best_state |-> NoState]

\* The locals of find_min_time_route_dijkstra when its main loop starts.
dijkstra_start(shopping_list, shopper_location) ==
    LET candidates == candidate_stores_of(shopping_list)
        items == shopping_list_items(shopping_list)
        first == [s \in candidates |->
                     sort_remaining_items(purchase_at(stores[s], items))]
        starts == { s \in candidates : purchase_at(stores[s], items) # items }
        keys == { << s, first[s] >> : s \in starts }
    IN  [candidate_stores |-> candidates,
         distances |-> [k \in keys |-> distance_to(shopper_location, stores[k[1]].location)],
         predecessors |-> [k \in keys |-> NoState],
         priority_queue |-> { QueueState(distance_to(shopper_location, stores[s].location),
                                         s, first[s]) : s \in starts },
         visited |-> {},
         best_time |-> Inf,
         best_state |-> NoState]

\* One iteration of the main loop on the popped state qs.
dijkstra_step(d, qs, customer_location) ==
    LET current == << qs.store_id, qs.remaining_items >>
        popped == [d EXCEPT !.priority_queue = d.priority_queue \ {qs}]
        all_purchased == \A i \in DOMAIN qs.remaining_items : qs.remaining_items[i][2] = 0
    IN  IF current \in d.visited THEN popped
        ELSE IF all_purchased
        THEN LET final_distance ==
                     FAdd(qs.distance,
                          distance_to(stores[qs.store_id].location, customer_location))
             IN  IF final_distance < d.best_time
                 THEN [popped EXCEPT !.visited = d.visited \cup {current},
                                     !.best_time = final_distance,
                                     !.best_state = Some(current)]
                 ELSE [popped EXCEPT !.visited = d.visited \cup {current}]
        ELSE LET new_remaining(t) ==
                     sort_remaining_items(purchase_at(stores[t], qs.remaining_items))
                 next_dist(t) == FAdd(qs.distance, travel_time_or(qs.store_id, t, Inf))
                 relaxed ==
                     { t \in d.candidate_stores \ {qs.store_id} :
                         /\ travel_time_or(qs.store_id, t, Inf) < Inf
                         /\ purchase_at(stores[t], qs.remaining_items) # qs.remaining_items
                         /\ \/ << t, new_remaining(t) >> \notin DOMAIN d.distances
                            \/ next_dist(t) < d.distances[<< t, new_remaining(t) >>] }
                 keys == { << t, new_remaining(t) >> : t \in relaxed }
             IN  [popped EXCEPT
                    !.visited = d.visited \cup {current},
                    !.distances = [k \in DOMAIN d.distances \cup keys |->
                                      IF k \in keys THEN next_dist(k[1]) ELSE d.distances[k]],
                    !.predecessors = [k \in DOMAIN d.predecessors \cup keys |->
                                         IF k \in keys THEN Some(current)
                                         ELSE d.predecessors[k]],
                    !.priority_queue = (d.priority_queue \ {qs})
                                       \cup { QueueState(next_dist(t), t, new_remaining(t)) :
                                                t \in relaxed }]

\* The backtracking loop: the stores from the first state to current_state.
RECURSIVE reconstruct_path(_, _)
reconstruct_path(predecessors, current_state) ==
    IF predecessors[current_state].some
    THEN Append(reconstruct_path(predecessors, predecessors[current_state].val),
                current_state[1])
    ELSE << current_state[1] >>

\* What find_min_time_route_dijkstra returns once the queue is empty.
dijkstra_result(d, shopping_list) ==
    IF ~ d.best_state.some THEN [some |-> FALSE, val |-> ShoppingRoute(<<>>, 0, 0)]
    ELSE LET path == reconstruct_path(d.predecessors, d.best_state.val)
         IN  Some(ShoppingRoute(path, d.best_time, calculate_shopping_cost(path, shopping_list)))

(***************************************************************************)
(* Catalogues and queries                                                  *)
(*                                                                         *)
(* Product 1 is A and product 2 is B.  Coordinates and travel times are    *)
(* in thousandths: the point (0, 1) of the specification is (0, 1000).     *)
(***************************************************************************)
Store(x, y, products, inventory) ==
    [location |-> Location(x, y), products |-> products, inventory |-> inventory]

\* A travel-time entry for both directions of a pair of stores
Leg(a, b, t) == (<< a, b >> :> t) @@ (<< b, a >> :> t)

NoLegs == [pair \in {} |-> 0]

\* One store that holds everything
SingleStore ==
    [stores |-> (1 :> Store(1000, 0, (1 :> 2), (1 :> 10))),
     travel_times |-> NoLegs,
     shopping_list |-> (1 :> 3),
     shopper_location |-> Location(0, 0),
     customer_location |-> Location(2000, 0)]

\* The near store is cheap but holds too little
SplitForced ==
    [stores |-> (1 :> Store(0, 1000, (1 :> 1), (1 :> 2)))
                @@ (2 :> Store(0, 2000, (1 :> 5), (1 :> 10))),
     travel_times |-> Leg(1, 2, 1000),
     shopping_list |-> (1 :> 3),
     shopper_location |-> Location(0, 0),
     customer_location |-> Location(0, 3000)]

\* A near, expensive store and a far, cheap one
TradeOff ==
    [stores |-> (1 :> Store(0, 1000, (1 :> 10), (1 :> 5)))
                @@ (2 :> Store(5000, 0, (1 :> 1), (1 :> 5))),
     travel_times |-> Leg(1, 2, 5099),
     shopping_list |-> (1 :> 3),
     shopper_location |-> Location(0, 0),
     customer_location |-> Location(0, 2000)]

\* The same catalogue built by BSLPSD::new, which leaves travel_times empty
TradeOffNoLegs == [TradeOff EXCEPT !.travel_times = NoLegs]

\* More is asked than all stores hold
Infeasible ==
    [SingleStore EXCEPT !.shopping_list = (1 :> 100)]

\* Store 1 holds two of the three A, store 2 holds the B, store 3 is far
Revisit ==
    [stores |-> (1 :> Store(0, 1000, (1 :> 1), (1 :> 2)))
                @@ (2 :> Store(0, 2000, (2 :> 1), (2 :> 1)))
                @@ (3 :> Store(0, 9000, (1 :> 5), (1 :> 5))),
     travel_times |-> Leg(1, 2, 1000) @@ Leg(1, 3, 8000) @@ Leg(2, 3, 7000),
     shopping_list |-> (1 :> 3) @@ (2 :> 1),
     shopper_location |-> Location(0, 0),
     customer_location |-> Location(0, 0)]

\* Store 2 sells nothing of the list and lies on a fast road to store 1
FastRoad ==
    [stores |-> (1 :> Store(0, 10000, (1 :> 10), (1 :> 5)))
                @@ (2 :> Store(0, 1000, (2 :> 1), (2 :> 1)))
                @@ (3 :> Store(0, 30000, (1 :> 1), (1 :> 5))),
     travel_times |-> Leg(1, 2, 1000) @@ Leg(1, 3, 20000) @@ Leg(2, 3, 29000),
     shopping_list |-> (1 :> 2),
     shopper_location |-> Location(0, 0),
     customer_location |-> Location(0, 11000)]

\* Three stores on the straight way to the customer, cheaper further on
OnTheWay ==
    [stores |-> (1 :> Store(0, 1000, (1 :> 10), (1 :> 5)))
                @@ (2 :> Store(0, 2000, (1 :> 5), (1 :> 5)))
                @@ (3 :> Store(0, 3000, (1 :> 1), (1 :> 5))),
     travel_times |-> Leg(1, 2, 1000) @@ Leg(1, 3, 2000) @@ Leg(2, 3, 1000),
     shopping_list |-> (1 :> 2),
     shopper_location |-> Location(0, 0),
     customer_location |-> Location(0, 4000)]

\* A product of the list is sold nowhere
Unsold == [TradeOff EXCEPT !.shopping_list = (1 :> 3) @@ (2 :> 1)]

\* Nothing is asked
EmptyList == [SplitForced EXCEPT !.shopping_list = [product_id \in {} |-> 0]]

\* No store and nothing asked
Trivial ==
    [stores |-> [s \in {} |-> Store(0, 0, << >>, << >>)],
     travel_times |-> NoLegs,
     shopping_list |-> [product_id \in {} |-> 0],
     shopper_location |-> Location(0, 0),
     customer_location |-> Location(3000, 4000)]

\* The near store is also the cheap one
NearAndCheap ==
    [stores |-> (1 :> Store(0, 1000, (1 :> 1), (1 :> 5)))
                @@ (2 :> Store(5000, 0, (1 :> 10), (1 :> 5))),
     travel_times |-> Leg(1, 2, 5099),
     shopping_list |-> (1 :> 3),
     shopper_location |-> Location(0, 0),
     customer_location |-> Location(0, 2000)]

\* Stores 1, 2 and 3 make the quickest route; store 4 sells C cheaper but
\* holds one unit of the two asked
SeedAgain ==
    [stores |-> (1 :> Store(3000, 3000, (1 :> 1), (1 :> 1)))
                @@ (2 :> Store(3000, 2000, (2 :> 1), (2 :> 1)))
                @@ (3 :> Store(1000, 0, (3 :> 5), (3 :> 2)))
                @@ (4 :> Store(0, 3000, (3 :> 1), (3 :> 1))),
     travel_times |-> Leg(1, 2, 1000) @@ Leg(1, 3, 3605) @@ Leg(1, 4, 3000)
                      @@ Leg(2, 3, 2828) @@ Leg(2, 4, 3162) @@ Leg(3, 4, 3162),
     shopping_list |-> (1 :> 1) @@ (2 :> 1) @@ (3 :> 2),
     shopper_location |-> Location(2000, 2000),
     customer_location |-> Location(0, 0)]

\* The travel matrix has no entry for the pair of stores 1 and 3
GapInMatrix ==
    [stores |-> (1 :> Store(0, 1000, (1 :> 10), (1 :> 5)))
                @@ (2 :> Store(3000, 1000, (1 :> 5), (1 :> 5)))
                @@ (3 :> Store(0, 2000, (1 :> 1), (1 :> 5))),
     travel_times |-> Leg(1, 2, 3000) @@ Leg(2, 3, 3162),
     shopping_list |-> (1 :> 2),
     shopper_location |-> Location(0, 0),
     customer_location |-> Location(0, 0)]

Scenarios ==
    { SingleStore, SplitForced, TradeOff, TradeOffNoLegs, Infeasible, Revisit, FastRoad,
      OnTheWay, Unsold, EmptyList, Trivial, NearAndCheap, SeedAgain, GapInMatrix }

MaxThreshold == 2

MaxRuns == 2

(***************************************************************************)
(* The solver as a state machine                                           *)
(***************************************************************************)
NoRoute == ShoppingRoute(<<>>, 0, 0)

NoCandidate == RouteCandidate(<<>>, 0)

Worker(worker_pc, queue, visited_route, route_candidate) ==
    [pc |-> worker_pc, queue |-> queue, visited_route |-> visited_route,
     route_candidate |-> route_candidate]

NotStarted == Worker("none", {}, {}, NoCandidate)

\* BSLPSD::new_with_travel_times (BSLPSD::new when the scenario has no legs)
Constructed(scn, threshold) ==
    /\ stores = scn.stores
    /\ travel_times = scn.travel_times
    /\ product_to_stores = [product_id \in {} |-> <<>>]
    /\ query = [shopping_list |-> scn.shopping_list,
                shopper_location |-> scn.shopper_location,
                customer_location |-> scn.customer_location,
                threshold |-> threshold]
    /\ min_cost = 0
    /\ dj = DijkstraIdle
    /\ min_time_route = NoRoute
    /\ found_upper_bound = FALSE
    /\ chan = <<>>
    /\ workers = [w \in {1, 2} |-> NotStarted]
    /\ linear_skyline = <<>>
    /\ unchanged_count = 0
    /\ route = NoRoute
    /\ update = FALSE
    /\ result = <<>>
    /\ returned = <<>>

Init ==
    /\ \E scn \in Scenarios, threshold \in 1 .. MaxThreshold : Constructed(scn, threshold)
    /\ pc = "new"

precompute_data ==
    /\ pc \in {"new", "ready"}
    /\ \E iter \in IterationOrders(DOMAIN stores) :
           product_to_stores' = build_inverted_list(iter)
    /\ pc' = "ready"
    /\ UNCHANGED << stores, travel_times, query, min_cost, dj, min_time_route,
                    found_upper_bound, chan, workers, linear_skyline, unchanged_count,
                    route, update, result, returned >>

\* What a fresh invocation sees: the locals of the previous one are gone.
FreshLocals ==
    /\ found_upper_bound' = FALSE
    /\ chan' = <<>>
    /\ workers' = [w \in {1, 2} |-> NotStarted]
    /\ linear_skyline' = <<>>
    /\ unchanged_count' = 0
    /\ route' = NoRoute
    /\ update' = FALSE
    /\ min_time_route' = NoRoute

\* solve_with_parallel up to the main loop of find_min_time_route_dijkstra
solve_begin ==
    /\ \/ pc \in {"new", "ready"} /\ returned' = returned
       \/ pc = "done" /\ Len(returned) + 1 < MaxRuns /\ returned' = Append(returned, result)
    /\ FreshLocals
    /\ result' = <<>>
    /\ LET found == find_min_cost_route(query.shopping_list)
           candidates == candidate_stores_of(query.shopping_list)
       IN  IF ~ found.some
           THEN pc' = "done" /\ min_cost' = 0 /\ dj' = DijkstraIdle
           ELSE /\ min_cost' = found.val
                /\ IF candidates = {}
                      \/ ~ candidates_can_fulfill(candidates, query.shopping_list)
                   THEN pc' = "done" /\ dj' = DijkstraIdle
                   ELSE /\ pc' = "dijkstra"
                        /\ dj' = dijkstra_start(query.shopping_list, query.shopper_location)
    /\ UNCHANGED << stores, travel_times, product_to_stores, query >>

\* Mutation of dijkstra_pop: what is bought at the popped store is taken off
\* its shelves
dijkstra_pop_taking_stock ==
    /\ pc = "dijkstra"
    /\ \E qs \in dj.priority_queue :
           /\ \A other \in dj.priority_queue : qs.distance <= other.distance
           /\ dj' = dijkstra_step(dj, qs, query.customer_location)
           /\ stores' = [stores EXCEPT
                           ![qs.store_id].inventory = [product_id \in DOMAIN @ |-> 0]]
    /\ UNCHANGED << travel_times, product_to_stores, query, pc, min_cost,
                    min_time_route, found_upper_bound, chan, workers, linear_skyline,
                    unchanged_count, route, update, result, returned >>

\* One iteration of the main loop of find_min_time_route_dijkstra: the heap
\* pops a state of least distance.
dijkstra_pop ==
    /\ pc = "dijkstra"
    /\ \E qs \in dj.priority_queue :
           /\ \A other \in dj.priority_queue : qs.distance <= other.distance
           /\ dj' = dijkstra_step(dj, qs, query.customer_location)
    /\ UNCHANGED << stores, travel_times, product_to_stores, query, pc, min_cost,
                    min_time_route, found_upper_bound, chan, workers, linear_skyline,
                    unchanged_count, route, update, result, returned >>

\* find_min_time_route_dijkstra returns; solve_with_parallel aborts or
\* spawns the two threads, each with R0 in its queue.
dijkstra_return ==
    /\ pc = "dijkstra"
    /\ dj.priority_queue = {}
    /\ LET found == dijkstra_result(dj, query.shopping_list)
           seed == RouteCandidate(found.val.stores, found.val.shopping_time)
       IN  IF ~ found.some
           THEN pc' = "done" /\ UNCHANGED << min_time_route, workers >>
           ELSE /\ pc' = "recv"
                /\ min_time_route' = found.val
                /\ workers' = [w \in {1, 2} |-> Worker("pop", {seed}, {}, NoCandidate)]
    /\ UNCHANGED << stores, travel_times, product_to_stores, query, min_cost, dj,
                    found_upper_bound, chan, linear_skyline, unchanged_count, route,
                    update, result, returned >>

\* The filter loop of a worker: a successor whose store list is not in
\* visited_route is marked visited and pushed.
RECURSIVE enqueue_new(_, _)
enqueue_new(worker, next_routes) ==
    IF next_routes = <<>> THEN worker
    ELSE LET next_route == Head(next_routes)
         IN  IF next_route.stores \notin worker.visited_route
             THEN enqueue_new([worker EXCEPT
                                 !.visited_route = @ \cup {next_route.stores},
                                 !.queue = @ \cup {next_route}],
                              Tail(next_routes))
             ELSE enqueue_new(worker, Tail(next_routes))

\* The successors of a candidate in the mode of thread w
successors(w, candidate) ==
    IF w = 1 THEN generate_next_routes(candidate)
    ELSE generate_next_routes_shuffle(candidate, query.shopper_location,
                                      query.customer_location)

\* Mutation of RouteCandidate_cmp: the candidates are ordered by their time
RouteCandidate_cmp_by_time(self, other) ==
    IF self.shopping_time < other.shopping_time THEN "Less"
    ELSE IF self.shopping_time > other.shopping_time THEN "Greater"
    ELSE "Equal"

\* Ord for RouteCandidate: other.shopping_time.partial_cmp(&self.shopping_time)
RouteCandidate_cmp(self, other) ==
    IF other.shopping_time < self.shopping_time THEN "Less"
    ELSE IF other.shopping_time > self.shopping_time THEN "Greater"
    ELSE "Equal"

\* BinaryHeap::pop: the candidates that none of the heap exceeds
heap_pop(queue) ==
    { c \in queue : \A other \in queue : RouteCandidate_cmp(c, other) # "Less" }

\* Mutation of worker_pop: the flag is not polled after the pop
worker_pop_without_poll(w) ==
    /\ workers[w].pc = "pop"
    /\ IF workers[w].queue = {}
       THEN workers' = [workers EXCEPT ![w].pc = "exited"]
       ELSE \E c \in heap_pop(workers[w].queue) :
                /\ workers' = [workers EXCEPT
                                 ![w].queue = @ \ {c},
                                 ![w].route_candidate = c,
                                 ![w].pc = "process"]
    /\ UNCHANGED << stores, travel_times, product_to_stores, query, pc, min_cost, dj,
                    min_time_route, found_upper_bound, chan, linear_skyline,
                    unchanged_count, route, update, result, returned >>

\* `while let Some(route_candidate) = queue.pop()` and the load of the flag.
\* BinaryHeap pops a candidate that no other exceeds in RouteCandidate's
\* order, that is one of least shopping_time.
worker_pop(w) ==
    /\ workers[w].pc = "pop"
    /\ IF workers[w].queue = {}
       THEN workers' = [workers EXCEPT ![w].pc = "exited"]
       ELSE \E c \in heap_pop(workers[w].queue) :
                /\ workers' = [workers EXCEPT
                                 ![w].queue = @ \ {c},
                                 ![w].route_candidate = c,
                                 ![w].pc = IF found_upper_bound THEN "exited" ELSE "process"]
    /\ UNCHANGED << stores, travel_times, product_to_stores, query, pc, min_cost, dj,
                    min_time_route, found_upper_bound, chan, linear_skyline,
                    unchanged_count, route, update, result, returned >>

\* The rest of the loop body: emit the candidate when it satisfies the
\* list, stop when its cost is sc_upper_bound, otherwise enqueue successors.
worker_process(w) ==
    /\ workers[w].pc = "process"
    /\ LET candidate == workers[w].route_candidate
           satisfies == satisfies_list_with_inventory(candidate.stores, query.shopping_list)
           shopping_cost == calculate_shopping_cost(candidate.stores, query.shopping_list)
           shopping_route == ShoppingRoute(candidate.stores, candidate.shopping_time,
                                           shopping_cost)
       IN  /\ chan' = IF satisfies THEN Append(chan, shopping_route) ELSE chan
           /\ IF satisfies /\ shopping_cost = min_cost
              THEN /\ found_upper_bound' = TRUE
                   /\ workers' = [workers EXCEPT ![w].pc = "exited"]
              ELSE /\ found_upper_bound' = found_upper_bound
                   /\ \E next_routes \in successors(w, candidate) :
                          workers' = [workers EXCEPT
                                        ![w] = enqueue_new([workers[w] EXCEPT !.pc = "pop"],
                                                           next_routes)]
    /\ UNCHANGED << stores, travel_times, product_to_stores, query, pc, min_cost, dj,
                    min_time_route, linear_skyline, unchanged_count, route, update,
                    result, returned >>

\* Mutation of aggregator_recv: a route that updates the skyline does not
\* reset the counter
aggregator_recv_without_reset ==
    /\ pc = "recv"
    /\ chan # <<>>
    /\ LET old_size == Len(linear_skyline)
           outcome == update_skyline(linear_skyline, Head(chan))
           unchanged == Len(outcome.skyline) = old_size /\ ~ outcome.updated
       IN  /\ route' = Head(chan)
           /\ chan' = Tail(chan)
           /\ linear_skyline' = outcome.skyline
           /\ update' = outcome.updated
           /\ unchanged_count' = IF unchanged THEN unchanged_count + 1 ELSE unchanged_count
           /\ found_upper_bound' =
                  IF unchanged /\ unchanged_count + 1 >= query.threshold
                  THEN TRUE ELSE found_upper_bound
    /\ UNCHANGED << stores, travel_times, product_to_stores, query, pc, min_cost, dj,
                    min_time_route, workers, result, returned >>

\* Mutation of aggregator_recv: the flag is stored with the outcome of the
\* comparison, so a route that changes the skyline clears it
aggregator_recv_storing_comparison ==
    /\ pc = "recv"
    /\ chan # <<>>
    /\ LET old_size == Len(linear_skyline)
           outcome == update_skyline(linear_skyline, Head(chan))
           unchanged == Len(outcome.skyline) = old_size /\ ~ outcome.updated
       IN  /\ route' = Head(chan)
           /\ chan' = Tail(chan)
           /\ linear_skyline' = outcome.skyline
           /\ update' = outcome.updated
           /\ unchanged_count' = IF unchanged THEN unchanged_count + 1 ELSE 0
           /\ found_upper_bound' = (unchanged /\ unchanged_count + 1 >= query.threshold)
    /\ UNCHANGED << stores, travel_times, product_to_stores, query, pc, min_cost, dj,
                    min_time_route, workers, result, returned >>

\* One iteration of `while let Ok(route) = rx.recv()`
aggregator_recv ==
    /\ pc = "recv"
    /\ chan # <<>>
    /\ LET old_size == Len(linear_skyline)
           outcome == update_skyline(linear_skyline, Head(chan))
           unchanged == Len(outcome.skyline) = old_size /\ ~ outcome.updated
       IN  /\ route' = Head(chan)
           /\ chan' = Tail(chan)
           /\ linear_skyline' = outcome.skyline
           /\ update' = outcome.updated
           /\ unchanged_count' = IF unchanged THEN unchanged_count + 1 ELSE 0
           /\ found_upper_bound' =
                  IF unchanged /\ unchanged_count + 1 >= query.threshold
                  THEN TRUE ELSE found_upper_bound
    /\ UNCHANGED << stores, travel_times, product_to_stores, query, pc, min_cost, dj,
                    min_time_route, workers, result, returned >>

\* Mutation of aggregator_return: the main thread keeps a sender of its own,
\* so recv never fails and the loop never ends
aggregator_return_with_sender_kept ==
    /\ pc = "recv"
    /\ chan = <<>>
    /\ \A w \in {1, 2} : workers[w].pc = "exited"
    /\ FALSE
    /\ UNCHANGED << stores, travel_times, product_to_stores, query, pc, min_cost, dj,
                    min_time_route, found_upper_bound, chan, workers, linear_skyline,
                    unchanged_count, route, update, result, returned >>

\* recv fails once both senders are dropped and the channel is empty: the
\* skyline is sorted and returned.
aggregator_return ==
    /\ pc = "recv"
    /\ chan = <<>>
    /\ \A w \in {1, 2} : workers[w].pc = "exited"
    /\ result' = sort_by_time(linear_skyline)
    /\ pc' = "done"
    /\ UNCHANGED << stores, travel_times, product_to_stores, query, min_cost, dj,
                    min_time_route, found_upper_bound, chan, workers, linear_skyline,
                    unchanged_count, route, update, returned >>

Next ==
    \/ precompute_data
    \/ solve_begin
    \/ dijkstra_pop
    \/ dijkstra_return
    \/ \E w \in {1, 2} : worker_pop(w)
    \/ \E w \in {1, 2} : worker_process(w)
    \/ aggregator_recv
    \/ aggregator_return

Spec == Init /\ [][Next]_vars

(***************************************************************************)
(* The skyline monitor on its own: update_skyline called with any routes,  *)
(* starting from the empty skyline, and the final sort of the caller.      *)
(***************************************************************************)
MaxRouteTime == 1

MaxRouteCost == 1

AnyRoutes ==
    { ShoppingRoute(rt_stores, shopping_time, shopping_cost) :
        rt_stores \in { << 1 >>, << 2 >>, << 1, 2 >> },
        shopping_time \in 0 .. MaxRouteTime,
        shopping_cost \in 0 .. MaxRouteCost }

InitSkyline ==
    /\ Constructed(SplitForced, 1)
    /\ pc = "skyline"

update_skyline_call ==
    /\ pc = "skyline"
    /\ \E new_route \in AnyRoutes :
           LET outcome == update_skyline(linear_skyline, new_route)
           IN  /\ route' = new_route
               /\ linear_skyline' = outcome.skyline
               /\ update' = outcome.updated
    /\ UNCHANGED << stores, travel_times, product_to_stores, query, pc, min_cost, dj,
                    min_time_route, found_upper_bound, chan, workers, unchanged_count,
                    result, returned >>

skyline_sorted ==
    /\ pc = "skyline"
    /\ result' = sort_by_time(linear_skyline)
    /\ pc' = "done"
    /\ UNCHANGED << stores, travel_times, product_to_stores, query, min_cost, dj,
                    min_time_route, found_upper_bound, chan, workers, linear_skyline,
                    unchanged_count, route, update, returned >>

NextSkyline == update_skyline_call \/ skyline_sorted

SpecSkyline == InitSkyline /\ [][NextSkyline]_vars

(***************************************************************************)
(* Properties                                                              *)
(***************************************************************************)
NoDomination(skyline) ==
    \A i, j \in DOMAIN skyline : ~ conventionally_dominates(skyline[i], skyline[j])

\* C1: after any sequence of update_skyline calls starting from the empty
\* skyline, and in the sorted list handed back, no route conventionally
\* dominates another route of the skyline.
C1_NoDomination == NoDomination(linear_skyline) /\ NoDomination(result)

\* C1 witness: three routes are kept side by side after an accepted
\* insertion, and a sorted list of three routes has been handed back.
C1_Witness ==
    /\ pc = "done"
    /\ Len(result) >= 3
    /\ update

\* C9: update_skyline(R) returns false and leaves the skyline unchanged
\* exactly when some entry conventionally dominates R or equals R; otherwise
\* it removes exactly the entries R dominates, keeps the others in order,
\* appends R and returns true.
C9_Call ==
    (pc = "skyline" /\ pc' = "skyline") =>
        LET rejected == \E i \in DOMAIN linear_skyline :
                            \/ conventionally_dominates(linear_skyline[i], route')
                            \/ linear_skyline[i] = route'
            kept(existing_route) == ~ conventionally_dominates(route', existing_route)
        IN  /\ update' = ~ rejected
            /\ rejected => linear_skyline' = linear_skyline
            /\ ~ rejected =>
                   linear_skyline' = Append(SelectSeq(linear_skyline, kept), route')

C9_UpdateSkylineContract == [][C9_Call]_vars

\* C9 witness: a call has just been refused although the route is not in the
\* skyline (an entry dominates it), with two routes kept side by side.
C9_Witness ==
    /\ pc = "skyline"
    /\ ~ update
    /\ Len(linear_skyline) >= 2
    /\ \A i \in DOMAIN linear_skyline : linear_skyline[i] # route
    /\ \E i \in DOMAIN linear_skyline : conventionally_dominates(linear_skyline[i], route)

\* The stores of a set, each counted once, hold every listed quantity.
supplies(store_ids, shopping_list) ==
    \A product_id \in DOMAIN shopping_list :
        SumOver([s \in store_ids |->
                    IF has_product(stores[s], product_id)
                    THEN get_inventory_level(stores[s], product_id) ELSE 0],
                store_ids) >= shopping_list[product_id]

\* Every sequence of pairwise distinct stores that fulfils the shopping list,
\* with its travel time and its greedy cost.
DistinctSequences ==
    UNION { IterationOrders(S) : S \in (SUBSET DOMAIN stores) \ {{}} }

FulfillingRoutes ==
    { ShoppingRoute(rt,
                    calculate_shopping_time(rt, query.shopper_location,
                                            query.customer_location),
                    calculate_shopping_cost(rt, query.shopping_list)) :
        rt \in { s \in DistinctSequences : supplies(Range(s), query.shopping_list) } }

MinOf(S) == CHOOSE m \in S : \A n \in S : m <= n

\* C2: two invocations of solve_with_parallel on the same solver and the same
\* query return the same skyline, as a set of routes, whatever the
\* interleaving of the workers and the aggregator.
C2_SameSkyline ==
    (pc = "done" /\ returned # <<>>) => Range(result) = Range(returned[1])

\* C3: every returned route fulfils the shopping list from the inventories of
\* its stores, each store counted once, and carries the finite cost
\* calculate_shopping_cost gives its store list.
C3_ReturnedFulfils ==
    pc = "done" =>
        \A i \in DOMAIN result :
            /\ supplies(Range(result[i].stores), query.shopping_list)
            /\ result[i].shopping_cost =
                   calculate_shopping_cost(result[i].stores, query.shopping_list)
            /\ result[i].shopping_cost < Inf

\* C4: the cost found by find_min_cost_route is a lower bound for every route
\* a worker emits, hence for every route of the returned skyline.
C4_CostLowerBound ==
    /\ \A i \in DOMAIN chan : chan[i].shopping_cost >= min_cost
    /\ \A i \in DOMAIN linear_skyline : linear_skyline[i].shopping_cost >= min_cost
    /\ pc = "done" => \A i \in DOMAIN result : result[i].shopping_cost >= min_cost

\* C5: the smallest shopping_time of the returned skyline is the
\* shopping_time of the route found by find_min_time_route_dijkstra.
C5_MinTimeIsSeed ==
    (pc = "done" /\ result # <<>>) =>
        MinOf({ result[i].shopping_time : i \in DOMAIN result })
            = min_time_route.shopping_time

\* C6: no returned route is conventionally dominated by a sequence of
\* pairwise distinct stores that fulfils the list, taken with its travel time
\* and its greedy cost.
C6_NonDominatedAmongAll ==
    pc = "done" =>
        \A i \in DOMAIN result :
            \A other \in FulfillingRoutes : ~ conventionally_dominates(other, result[i])

\* C7: when no returned route has the cost found by find_min_cost_route, the
\* cheapest returned route still has the least cost of all store sequences
\* that fulfil the list.
C7_CheapestIsMinimal ==
    (/\ pc = "done"
     /\ result # <<>>
     /\ \A i \in DOMAIN result : result[i].shopping_cost # min_cost) =>
        MinOf({ result[i].shopping_cost : i \in DOMAIN result })
            = MinOf({ r.shopping_cost : r \in FulfillingRoutes })

\* C8: the returned list is in ascending order of shopping_time, ties in
\* ascending order of shopping_cost, then of the number of stores.
C8_SortedResult ==
    pc = "done" =>
        \A i, j \in DOMAIN result :
            i < j =>
                \/ result[i].shopping_time < result[j].shopping_time
                \/ /\ result[i].shopping_time = result[j].shopping_time
                   /\ \/ result[i].shopping_cost < result[j].shopping_cost
                      \/ /\ result[i].shopping_cost = result[j].shopping_cost
                         /\ Len(result[i].stores) <= Len(result[j].stores)

\* C8 witness: a run has returned several routes after the sort reordered
\* the skyline the aggregator had built.
C8_Witness ==
    /\ pc = "done"
    /\ min_time_route # NoRoute
    /\ Len(result) >= 2
    /\ result # linear_skyline

\* Filling a quantity cheapest store first, at most the inventory of each
\* store being taken from it.
RECURSIVE cheapest_first(_, _, _)
cheapest_first(store_ids, product_id, quantity) ==
    LET sellers == { s \in store_ids : has_product(stores[s], product_id) }
        cheapest == CHOOSE s \in sellers :
                        \A t \in sellers :
                            stores[s].products[product_id] <= stores[t].products[product_id]
        taken == Min(quantity, get_inventory_level(stores[cheapest], product_id))
    IN  IF quantity = 0 \/ sellers = {} THEN 0
        ELSE taken * stores[cheapest].products[product_id]
                 + cheapest_first(store_ids \ {cheapest}, product_id, quantity - taken)

\* C10: calculate_shopping_cost is +inf exactly when the stores of the route
\* cannot together supply the listed quantities, and otherwise the sum over
\* the products of the cheapest-store-first filling; stated for every route
\* the solver has priced (the Dijkstra route and the routes the workers emit).
C10_InfiniteIffUnsupplied ==
    LET priced == { min_time_route } \cup Range(chan) \cup Range(linear_skyline)
    IN  \A r \in priced \ { NoRoute } :
            /\ r.shopping_cost = calculate_shopping_cost(r.stores, query.shopping_list)
            /\ (r.shopping_cost = Inf) <=>
                   ~ supplies(Range(r.stores), query.shopping_list)
            /\ supplies(Range(r.stores), query.shopping_list) =>
                   r.shopping_cost =
                       SumOver([product_id \in DOMAIN query.shopping_list |->
                                   cheapest_first(Range(r.stores), product_id,
                                                  query.shopping_list[product_id])],
                               DOMAIN query.shopping_list)

(***************************************************************************)
(* The cost optimizer on its own: calculate_shopping_cost called on the    *)
(* routes of a small catalogue, for every catalogue and list of a family.  *)
(***************************************************************************)
MaxUnits == 2

\* Product 1 has two price levels, product 2 a single, dearer one
PriceLevels == [product_id \in { 1, 2 } |-> IF product_id = 1 THEN { 1, 2 } ELSE { 3 }]

CostStores == { 1, 2 }

CostProducts == { 1, 2 }

NoOffer == [price |-> 0, qty |-> 0, sold |-> FALSE]

Offers(product_id) ==
    { NoOffer } \cup { [price |-> c, qty |-> n, sold |-> TRUE] :
                         c \in PriceLevels[product_id], n \in 0 .. MaxUnits }

\* What one store may offer: an offer or none for every product
StoreOffers ==
    { offer \in [CostProducts -> UNION { Offers(product_id) : product_id \in CostProducts }] :
        \A product_id \in CostProducts : offer[product_id] \in Offers(product_id) }

\* The store whose products and inventory are the offers sold
StoreOf(offer) ==
    LET sold == { product_id \in DOMAIN offer : offer[product_id].sold }
    IN  Store(0, 0, [product_id \in sold |-> offer[product_id].price],
                    [product_id \in sold |-> offer[product_id].qty])

\* A shopping list: positive quantities for some of the products
ListOf(wanted) ==
    [product_id \in { q \in DOMAIN wanted : wanted[q] > 0 } |-> wanted[product_id]]

\* The routes of the data model: sequences of pairwise distinct stores
CostRoutes == { << >> } \cup UNION { IterationOrders(S) : S \in (SUBSET CostStores) \ {{}} }

InitCost ==
    /\ \E offers \in [CostStores -> StoreOffers],
          wanted \in [CostProducts -> 0 .. MaxUnits] :
           Constructed([stores |-> [s \in CostStores |-> StoreOf(offers[s])],
                        travel_times |-> NoLegs,
                        shopping_list |-> ListOf(wanted),
                        shopper_location |-> Location(0, 0),
                        customer_location |-> Location(0, 0)], 1)
    /\ pc = "cost"

calculate_shopping_cost_call ==
    /\ pc = "cost"
    /\ \E rt \in CostRoutes :
           route' = ShoppingRoute(rt, 0, calculate_shopping_cost(rt, query.shopping_list))
    /\ UNCHANGED << stores, travel_times, product_to_stores, query, pc, min_cost, dj,
                    min_time_route, found_upper_bound, chan, workers, linear_skyline,
                    unchanged_count, update, result, returned >>

NextCost == calculate_shopping_cost_call

SpecCost == InitCost /\ [][NextCost]_vars

\* Every way of buying from the stores of a set: at most the inventory of a
\* store for a product it sells, nothing of a product it does not sell.
Allocations(store_ids, shopping_list) ==
    { a \in [store_ids \X DOMAIN shopping_list -> 0 .. MaxUnits] :
        /\ \A sp \in DOMAIN a :
               a[sp] <= (IF has_product(stores[sp[1]], sp[2])
                         THEN get_inventory_level(stores[sp[1]], sp[2]) ELSE 0)
        /\ \A product_id \in DOMAIN shopping_list :
               SumOver([s \in store_ids |-> a[<< s, product_id >>]], store_ids)
                   >= shopping_list[product_id] }

AllocationCost(a) ==
    SumOver([sp \in DOMAIN a |->
                IF a[sp] > 0 THEN a[sp] * stores[sp[1]].products[sp[2]] ELSE 0],
            DOMAIN a)

C12_Call ==
    (/\ pc = "cost"
     /\ route # NoRoute
     /\ Len(route'.stores) = Len(route.stores)
     /\ Range(route'.stores) = Range(route.stores)) =>
        route'.shopping_cost = route.shopping_cost

C12_PermutationInvariant == [][C12_Call]_vars

\* C12 witness: the route [2,1] has been priced at a finite cost where both
\* stores sell product 1 at the same unit cost, neither holds the whole
\* quantity, and store 2 also sells the other product of the list.
C12_Witness ==
    /\ pc = "cost"
    /\ route.stores = << 2, 1 >>
    /\ route.shopping_cost < Inf
    /\ DOMAIN query.shopping_list = CostProducts
    /\ \A s \in CostStores : has_product(stores[s], 1)
    /\ stores[1].products[1] = stores[2].products[1]
    /\ \A s \in CostStores : get_inventory_level(stores[s], 1) < query.shopping_list[1]
    /\ has_product(stores[2], 2)

\* C13: the route find_min_time_route_dijkstra returns fulfils the list, and
\* its shopping_time is the least travel time (shopper to first store, matrix
\* legs, last store to customer) of the store sequences that fulfil the list.
C13_DijkstraOptimal ==
    min_time_route # NoRoute =>
        /\ supplies(Range(min_time_route.stores), query.shopping_list)
        /\ min_time_route.shopping_time =
               MinOf({ r.shopping_time : r \in FulfillingRoutes })

(***************************************************************************)
(* find_min_time_route_dijkstra on its own, called on every catalogue and  *)
(* list of the family, the stores on a line, with and without the leg      *)
(* between them (BSLPSD::new leaves the travel matrix empty).              *)
(***************************************************************************)
InitTime ==
    /\ \E offers \in [CostStores -> StoreOffers],
          wanted \in [CostProducts -> 0 .. MaxUnits],
          legs \in { NoLegs, Leg(1, 2, 1000) } :
           Constructed([stores |-> [s \in CostStores |->
                                       [StoreOf(offers[s]) EXCEPT
                                           !.location = Location(0, 1000 * s)]],
                        travel_times |-> legs,
                        shopping_list |-> ListOf(wanted),
                        shopper_location |-> Location(0, 0),
                        customer_location |-> Location(0, 3000)], 1)
    /\ pc = "time"

\* The call up to the main loop: candidate stores, pre-check, initial nodes
find_min_time_route_begin ==
    /\ pc = "time"
    /\ LET candidates == candidate_stores_of(query.shopping_list)
       IN  IF candidates = {} \/ ~ candidates_can_fulfill(candidates, query.shopping_list)
           THEN pc' = "timed" /\ dj' = DijkstraIdle
           ELSE /\ pc' = "time_loop"
                /\ dj' = dijkstra_start(query.shopping_list, query.shopper_location)
    /\ UNCHANGED << stores, travel_times, product_to_stores, query, min_cost,
                    min_time_route, found_upper_bound, chan, workers, linear_skyline,
                    unchanged_count, route, update, result, returned >>

find_min_time_route_pop ==
    /\ pc = "time_loop"
    /\ \E qs \in dj.priority_queue :
           /\ \A other \in dj.priority_queue : qs.distance <= other.distance
           /\ dj' = dijkstra_step(dj, qs, query.customer_location)
    /\ UNCHANGED << stores, travel_times, product_to_stores, query, pc, min_cost,
                    min_time_route, found_upper_bound, chan, workers, linear_skyline,
                    unchanged_count, route, update, result, returned >>

\* The return after the loop: the reconstructed route, or None (NoRoute here)
find_min_time_route_return ==
    /\ pc = "time_loop"
    /\ dj.priority_queue = {}
    /\ LET found == dijkstra_result(dj, query.shopping_list)
       IN  min_time_route' = IF found.some THEN found.val ELSE NoRoute
    /\ pc' = "timed"
    /\ UNCHANGED << stores, travel_times, product_to_stores, query, min_cost, dj,
                    found_upper_bound, chan, workers, linear_skyline, unchanged_count,
                    route, update, result, returned >>

NextTime ==
    \/ find_min_time_route_begin
    \/ find_min_time_route_pop
    \/ find_min_time_route_return

SpecTime == InitTime /\ [][NextTime]_vars

\* C16: find_min_time_route_dijkstra returns None exactly when the inventory
\* of some listed product, summed over all stores, is below the quantity
\* asked; when the stores together cover the list it returns a route.
C16_NoneIffUncovered ==
    pc = "timed" =>
        ((min_time_route = NoRoute) <=> ~ supplies(DOMAIN stores, query.shopping_list))

\* The inventory of some listed product, summed over the whole catalogue, is
\* below the quantity asked.
AggregateShort ==
    \E product_id \in DOMAIN query.shopping_list :
        SumOver([s \in DOMAIN stores |->
                    IF product_id \in DOMAIN stores[s].inventory
                    THEN stores[s].inventory[product_id] ELSE 0],
                DOMAIN stores) < query.shopping_list[product_id]

\* C14: when the aggregate inventory of some listed product is short,
\* solve_with_parallel starts no worker, nothing is ever sent, and the list
\* it returns is empty.
C14_InfeasibleIsEmpty ==
    AggregateShort =>
        /\ \A w \in DOMAIN workers : workers[w] = NotStarted
        /\ chan = <<>>
        /\ linear_skyline = <<>>
        /\ pc = "done" => result = <<>>

\* C14 witness: a query on a solver whose index is built has returned the
\* empty list, the aggregate inventory being short while every listed
\* product is sold somewhere.
C14_Witness ==
    /\ AggregateShort
    /\ pc = "done"
    /\ result = <<>>
    /\ \A product_id \in DOMAIN query.shopping_list : product_id \in DOMAIN product_to_stores

\* The query of a scenario is the one being solved.
Solving(scn) ==
    /\ stores = scn.stores
    /\ query.shopping_list = scn.shopping_list
    /\ query.shopper_location = scn.shopper_location
    /\ query.customer_location = scn.customer_location

\* precompute_data has built the index of a catalogue that has stock.
IndexBuilt == DOMAIN product_to_stores # {}

\* C15: for an empty shopping list the solver returns exactly one route, with
\* no store, the time from the shopper to the customer and cost 0.
C15_EmptyListRoute ==
    (pc = "done" /\ DOMAIN query.shopping_list = {}) =>
        result = << ShoppingRoute(<< >>,
                                  distance_to(query.shopper_location,
                                              query.customer_location), 0) >>

\* C17: in scenario 3 (the near store holds too little) the solver returns,
\* in every interleaving, the single route [S1, S2] with time 3 and cost 7.
C17_SplitForcedSingleton ==
    (pc = "done" /\ IndexBuilt /\ Solving(SplitForced) /\ travel_times = SplitForced.travel_times) =>
        result = << ShoppingRoute(<< 1, 2 >>, 3000, 7) >>

\* C18: in scenario 4 (near and dear against far and cheap) the solver
\* returns [S1] with time 2 and cost 30, then [S2] with the time of the two
\* legs through S2 and cost 3.
C18_TradeOffTwoRoutes ==
    (pc = "done" /\ IndexBuilt /\ Solving(TradeOff)) =>
        result = << ShoppingRoute(<< 1 >>, 2000, 30),
                    ShoppingRoute(<< 2 >>,
                                  distance_to(query.shopper_location, stores[2].location)
                                  + distance_to(stores[2].location,
                                                query.customer_location), 3) >>

\* C20: a query on a solver whose precompute_data was never called does not
\* return a skyline as a feasible or infeasible query does: it never comes
\* to the normal return.
C20_UnpreparedFails ==
    ~ (pc = "done" /\ ~ IndexBuilt /\ \E s \in DOMAIN stores :
                                          \E product_id \in DOMAIN stores[s].inventory :
                                              stores[s].inventory[product_id] > 0)

\* The list asks one product, and store s holds the whole quantity at a unit
\* price strictly below that of every other store selling it.
HoldsAllCheapest(s) ==
    /\ Cardinality(DOMAIN query.shopping_list) = 1
    /\ \A product_id \in DOMAIN query.shopping_list :
           /\ product_id \in DOMAIN stores[s].products
           /\ product_id \in DOMAIN stores[s].inventory
           /\ stores[s].inventory[product_id] >= query.shopping_list[product_id]
           /\ \A t \in DOMAIN stores \ {s} :
                  product_id \in DOMAIN stores[t].products =>
                      stores[s].products[product_id] < stores[t].products[product_id]

OnlyRouteThrough(s) == Len(result) = 1 /\ result[1].stores = << s >>

\* C19 as stated: for a single-product list of which one store holds the
\* whole quantity at the strictly lowest price, the returned skyline is
\* exactly the single-store route through that store.
C19_CheapestStoreAlone ==
    \A s \in DOMAIN stores :
        (pc = "done" /\ IndexBuilt /\ HoldsAllCheapest(s)) => OnlyRouteThrough(s)

\* C19 amended: the same, when that store is moreover the route
\* find_min_time_route_dijkstra returns; a nearer, dearer store otherwise
\* stays in the skyline.
C19_CheapestAndQuickestAlone ==
    \A s \in DOMAIN stores :
        (/\ pc = "done"
         /\ IndexBuilt
         /\ HoldsAllCheapest(s)
         /\ min_time_route.stores = << s >>) => OnlyRouteThrough(s)

\* C19 witness: with a second, dearer and farther store in the catalogue,
\* the solver has returned the single route through the near, cheap store.
C19_Witness ==
    /\ pc = "done"
    /\ IndexBuilt
    /\ Cardinality(DOMAIN stores) = 2
    /\ \E s \in DOMAIN stores :
           /\ HoldsAllCheapest(s)
           /\ min_time_route.stores = << s >>
           /\ OnlyRouteThrough(s)

\* C21: no step of the solver (precompute_data, find_min_cost_route,
\* find_min_time_route_dijkstra, calculate_shopping_cost, the workers and the
\* aggregator of solve_with_parallel) changes a store's inventory or products
\* or the travel matrix.
C21_CatalogueUnchanged == [][stores' = stores /\ travel_times' = travel_times]_vars

\* C21 witness: a second query on the same solver has returned two routes,
\* after purchases were priced at several stores of a catalogue with legs.
C21_Witness ==
    /\ pc = "done"
    /\ returned # <<>>
    /\ Len(result) >= 2
    /\ DOMAIN travel_times # {}
    /\ \E i \in DOMAIN result : Len(result[i].stores) >= 2

\* C22: the termination flag is written only by the aggregator: a step that
\* sets it is a step of the receive loop, and no step of a worker changes it.
C22_Store ==
    (~ found_upper_bound /\ found_upper_bound') =>
        /\ workers' = workers
        /\ pc = "recv"
        /\ chan # <<>>
        /\ chan' = Tail(chan)

C22_OnlyAggregatorWrites == [][C22_Store]_vars

\* C23: the route returned by find_min_time_route_dijkstra, every candidate
\* in a worker's queue and every route of the returned skyline is a sequence
\* of pairwise distinct stores.
C23_DistinctStores ==
    /\ ~ has_duplicates(min_time_route.stores)
    /\ \A w \in DOMAIN workers :
           \A candidate \in workers[w].queue : ~ has_duplicates(candidate.stores)
    /\ \A i \in DOMAIN result : ~ has_duplicates(result[i].stores)

\* C24: the shopping_time of every candidate in a worker's queue and of every
\* route of the returned skyline is the travel time of its own store list:
\* shopper to first store, the matrix legs between consecutive stores, last
\* store to customer.
C24_TimeOfOwnStores ==
    /\ \A w \in DOMAIN workers :
           \A candidate \in workers[w].queue :
               candidate.shopping_time =
                   calculate_shopping_time(candidate.stores, query.shopper_location,
                                           query.customer_location)
    /\ \A i \in DOMAIN result :
           result[i].shopping_time =
               calculate_shopping_time(result[i].stores, query.shopper_location,
                                       query.customer_location)

\* C25: a worker that pops while the termination flag is set exits at that
\* pop: it sends nothing and enqueues nothing for the candidate it popped,
\* and once exited (its sender dropped) it takes no further step.
C25_Pop ==
    \A w \in DOMAIN workers :
        /\ (found_upper_bound /\ workers[w].pc = "pop" /\ workers'[w] # workers[w]) =>
               /\ workers'[w].pc = "exited"
               /\ chan' = chan
               /\ workers'[w].visited_route = workers[w].visited_route
               /\ workers'[w].queue \subseteq workers[w].queue
        /\ (workers[w].pc = "exited" /\ workers'[w] # workers[w]) =>
               workers'[w] = NotStarted

C25_ExitAtNextPop == [][C25_Pop]_vars

\* C25 witness: the flag is set and a worker has exited on a candidate it
\* popped but never processed: the candidate is not a route of cost
\* sc_upper_bound, and a successor of it is not in the worker's visited set.
C25_Witness ==
    \E w \in DOMAIN workers :
        LET candidate == workers[w].route_candidate
        IN  /\ found_upper_bound
            /\ workers[w].pc = "exited"
            /\ candidate # NoCandidate
            /\ calculate_shopping_cost(candidate.stores, query.shopping_list) # min_cost
            /\ \E next_routes \in successors(w, candidate) :
                   \E i \in DOMAIN next_routes :
                       next_routes[i].stores \notin workers[w].visited_route

\* A step of the aggregator's receive loop: the head of the channel is taken.
Received == pc = "recv" /\ chan # <<>> /\ chan' = Tail(chan)

\* C26: the unchanged counter is the number of routes received in a row, up
\* to the last one, that left the skyline as it was: a received route that
\* changes the skyline sets it to zero, any other adds one, and nothing else
\* touches it within a query.  The aggregator sets the flag in the step that
\* brings the counter to stagnation_threshold, and never at a lower count.
C26_Receive ==
    /\ Received =>
           /\ unchanged_count' = IF linear_skyline' = linear_skyline
                                 THEN unchanged_count + 1 ELSE 0
           /\ unchanged_count' = query.threshold => found_upper_bound'
           /\ (~ found_upper_bound /\ found_upper_bound') =>
                  unchanged_count' >= query.threshold
    /\ (~ Received /\ unchanged_count' # unchanged_count) =>
           /\ unchanged_count' = 0
           /\ \A w \in DOMAIN workers : workers'[w] = NotStarted

C26_StagnationCounter == [][C26_Receive]_vars

\* C26 witness: with a threshold of at least two, the counter has come to
\* the threshold on routes that left the skyline as it was, the last of them
\* a route that is not in the skyline, and the flag is set.
C26_Witness ==
    /\ pc = "recv"
    /\ query.threshold >= 2
    /\ unchanged_count = query.threshold
    /\ ~ update
    /\ found_upper_bound
    /\ linear_skyline # <<>>
    /\ \A i \in DOMAIN linear_skyline : linear_skyline[i] # route

\* C27: once a route of cost sc_upper_bound is in the skyline the flag is
\* set, and that route and the routes accepted before it that it left in the
\* skyline stay there up to the return and are in the returned list.
C27_Step ==
    (pc = "recv" /\ \E i \in DOMAIN linear_skyline :
                        linear_skyline[i].shopping_cost = min_cost) =>
        /\ found_upper_bound
        /\ pc' = "recv" => Range(linear_skyline) \subseteq Range(linear_skyline')
        /\ pc' = "done" => Range(linear_skyline) \subseteq Range(result')

C27_LowerBoundRouteKept == [][C27_Step]_vars

\* C28: after the aggregator has set the flag (the counter has come to the
\* threshold) its receive loop is over: no further route is received and the
\* skyline stays as it is up to the return.
C28_Step ==
    (pc = "recv" /\ found_upper_bound /\ unchanged_count >= query.threshold) =>
        /\ ~ Received
        /\ pc' = "recv" => linear_skyline' = linear_skyline

C28_LoopEndsAtFlag == [][C28_Step]_vars

\* C29: within one worker no store sequence is enqueued twice, the seed
\* included: a step of a worker pushes only sequences that are neither the
\* seed nor in its visited set, which holds every sequence it pushed before,
\* and no two candidates of a queue have the same stores.
C29_Step ==
    \A w \in DOMAIN workers :
        \A candidate \in workers'[w].queue \ workers[w].queue :
            workers[w].pc = "process" =>
                /\ candidate.stores # min_time_route.stores
                /\ candidate.stores \notin workers[w].visited_route
                /\ candidate.stores \in workers'[w].visited_route
                /\ \A other \in workers'[w].queue :
                       other.stores = candidate.stores => other = candidate

C29_EnqueuedOnce == [][C29_Step]_vars

\* Every pair of consecutive stores of a route has a travel-matrix entry.
NoMissingLeg(rt_stores) ==
    \A i \in 1 .. Len(rt_stores) - 1 :
        << rt_stores[i], rt_stores[i + 1] >> \in DOMAIN travel_times

\* C30: a pair of stores without a travel-matrix entry is never a leg: no
\* candidate in a worker's queue and no route of the returned skyline has two
\* consecutive stores whose ordered pair is missing from the matrix.
C30_NoMissingLegUsed ==
    /\ \A w \in DOMAIN workers :
           \A candidate \in workers[w].queue : NoMissingLeg(candidate.stores)
    /\ \A i \in DOMAIN result : NoMissingLeg(result[i].stores)

(***************************************************************************)
(* The two route expanders on their own: generate_next_routes and          *)
(* generate_next_routes_shuffle called on routes of distinct stores of a   *)
(* four-store catalogue, for every symmetric travel matrix whose entries   *)
(* are missing or a whole number of units up to MaxLeg.                    *)
(***************************************************************************)
MaxLeg == 2

ExpandStores == { 1, 2, 3, 4 }

StorePairs == { pair \in ExpandStores \X ExpandStores : pair[1] < pair[2] }

\* The matrix that holds, in both directions, the pairs given a positive time
MatrixOf(times) ==
    [pair \in { p \in ExpandStores \X ExpandStores :
                  /\ p[1] # p[2]
                  /\ times[IF p[1] < p[2] THEN p ELSE << p[2], p[1] >>] > 0 } |->
        1000 * times[IF pair[1] < pair[2] THEN pair ELSE << pair[2], pair[1] >>]]

\* The routes an expander is called on: up to three stores for
\* generate_next_routes, one or two for generate_next_routes_shuffle
ExpandCandidates(w) ==
    UNION { IterationOrders(S) :
              S \in { T \in SUBSET ExpandStores :
                        Cardinality(T) \in (IF w = 1 THEN { 1, 2, 3 } ELSE { 1, 2 }) } }

InitExpand ==
    /\ \E times \in [StorePairs -> 0 .. MaxLeg] :
           Constructed([stores |-> [s \in ExpandStores |->
                                       [SeedAgain.stores[s] EXCEPT
                                           !.location = Location(1000 * (s % 2),
                                                                 1000 * (s \div 2))]],
                        travel_times |-> MatrixOf(times),
                        shopping_list |-> SeedAgain.shopping_list,
                        shopper_location |-> Location(0, 0),
                        customer_location |-> Location(2000, 2000)], 1)
    /\ pc = "expand"

\* A call of the expander of thread w on a candidate, by a worker whose
\* visited set is empty: every successor is pushed.
generate_next_routes_call(w) ==
    /\ pc = "expand"
    /\ \E candidate \in ExpandCandidates(w) :
           \E shopping_time \in { calculate_shopping_time(candidate, query.shopper_location,
                                                          query.customer_location) } :
               \E next_routes \in successors(w, RouteCandidate(candidate, shopping_time)) :
                   workers' = [v \in { 1, 2 } |->
                                  IF v = w
                                  THEN enqueue_new(Worker("pop", {}, {},
                                                          RouteCandidate(candidate,
                                                                         shopping_time)),
                                                   next_routes)
                                  ELSE NotStarted]
    /\ pc' = "expanded"
    /\ UNCHANGED << stores, travel_times, product_to_stores, query, min_cost, dj,
                    min_time_route, found_upper_bound, chan, linear_skyline,
                    unchanged_count, route, update, result, returned >>

NextExpand == \E w \in { 1, 2 } : generate_next_routes_call(w)

SpecExpand == InitExpand /\ [][NextExpand]_vars

\* The candidate thread w was called on, and what its queue then holds
Expanded(w) == pc = "expanded" /\ workers[w].pc = "pop"

Outside(rt_stores) == DOMAIN stores \ Range(rt_stores)

AppendSuccessors(w) ==
    { q \in workers[w].queue : Len(q.stores) = Len(workers[w].route_candidate.stores) + 1 }

SwapSuccessors(w) ==
    { q \in workers[w].queue : Len(q.stores) = Len(workers[w].route_candidate.stores) }

\* C31: in Mode A the append successor of a non-empty candidate whose last
\* store is s is the candidate extended by a store outside the route whose
\* travel-matrix distance from s is the smallest; when no store outside the
\* route has a matrix entry from s there is no append successor.
C31_AppendNearest ==
    Expanded(1) =>
        LET candidate == workers[1].route_candidate
            s == Last(candidate.stores)
            reachable == { t \in Outside(candidate.stores) : << s, t >> \in DOMAIN travel_times }
        IN  IF reachable = {}
            THEN AppendSuccessors(1) = {}
            ELSE \E m \in reachable :
                    /\ \A t \in reachable : travel_times[<< s, m >>] <= travel_times[<< s, t >>]
                    /\ { q.stores : q \in AppendSuccessors(1) } = { Append(candidate.stores, m) }
                    /\ Cardinality(AppendSuccessors(1)) = 1

\* Mode A has expanded a two-store route whose last store reaches the two
\* stores outside it at different distances
C31_Witness ==
    /\ Expanded(1)
    /\ Len(workers[1].route_candidate.stores) = 2
    /\ AppendSuccessors(1) # {}
    /\ LET s == Last(workers[1].route_candidate.stores)
       IN  \E t, u \in Outside(workers[1].route_candidate.stores) :
               /\ << s, t >> \in DOMAIN travel_times
               /\ << s, u >> \in DOMAIN travel_times
               /\ travel_times[<< s, t >>] < travel_times[<< s, u >>]

\* C32: in Mode A the swap successor of a candidate of two or more stores,
\* with last store s and second-to-last store p, replaces s by a store t
\* outside the route whose matrix distance d(p,t) is the smallest one
\* strictly greater than d(p,s); there is none when no such store exists
\* (a missing d(p,s) counts as infinite).
C32_SwapNextNearest ==
    (Expanded(1) /\ Len(workers[1].route_candidate.stores) >= 2) =>
        LET candidate == workers[1].route_candidate
            s == Last(candidate.stores)
            p == candidate.stores[Len(candidate.stores) - 1]
            farther == { t \in Outside(candidate.stores) :
                           /\ << p, t >> \in DOMAIN travel_times
                           /\ << p, s >> \in DOMAIN travel_times
                           /\ travel_times[<< p, t >>] > travel_times[<< p, s >>] }
        IN  IF farther = {}
            THEN SwapSuccessors(1) = {}
            ELSE \E n \in farther :
                    /\ \A t \in farther : travel_times[<< p, n >>] <= travel_times[<< p, t >>]
                    /\ { q.stores : q \in SwapSuccessors(1) }
                         = { Append(Front(candidate.stores), n) }
                    /\ Cardinality(SwapSuccessors(1)) = 1

\* Mode A has swapped the last store of a three-store route while the first
\* store of the route is farther from the second-to-last than the old last
\* store and no farther than the new one
C32_Witness ==
    /\ Expanded(1)
    /\ Len(workers[1].route_candidate.stores) = 3
    /\ SwapSuccessors(1) # {}
    /\ LET rt == workers[1].route_candidate.stores
       IN  /\ << rt[2], rt[1] >> \in DOMAIN travel_times
           /\ << rt[2], rt[3] >> \in DOMAIN travel_times
           /\ travel_times[<< rt[2], rt[1] >>] > travel_times[<< rt[2], rt[3] >>]
           /\ \A q \in SwapSuccessors(1) :
                  travel_times[<< rt[2], Last(q.stores) >>] >= travel_times[<< rt[2], rt[1] >>]

\* C40: for a candidate of exactly one store, the matrix having no entry from
\* a store to itself, neither expansion mode produces a swap successor: the
\* only successors are routes of two stores that keep the candidate's store;
\* and no expansion of any route pushes a single-store route.
C40_NoSingleStoreSwap ==
    \A w \in DOMAIN workers :
        Expanded(w) =>
            /\ \A q \in workers[w].queue : Len(q.stores) >= 2
            /\ Len(workers[w].route_candidate.stores) = 1 =>
                   /\ SwapSuccessors(w) = {}
                   /\ \A q \in workers[w].queue :
                          /\ Len(q.stores) = 2
                          /\ workers[w].route_candidate.stores[1] \in Range(q.stores)

\* Mode B has expanded a single store that reaches two other stores at
\* different distances, and got an append successor
C40_Witness ==
    /\ \E w \in DOMAIN workers :
           /\ Expanded(w)
           /\ w = 2
           /\ Len(workers[w].route_candidate.stores) = 1
           /\ AppendSuccessors(w) # {}
           /\ LET s == workers[w].route_candidate.stores[1]
              IN  \E t, u \in Outside(<< s >>) :
                      /\ << s, t >> \in DOMAIN travel_times
                      /\ << s, u >> \in DOMAIN travel_times
                      /\ travel_times[<< s, t >>] < travel_times[<< s, u >>]

(***************************************************************************)
(* The inverted index on its own: precompute_data called, and called       *)
(* again, on every catalogue of three stores of the family IndexOffers.    *)
(***************************************************************************)
IndexStores == { 1, 2, 3 }

\* What one store may offer to the index: a product is not sold, sold and
\* out of stock, or sold and in stock
IndexOffers ==
    { offer \in StoreOffers :
        \A product_id \in CostProducts : offer[product_id].qty \in { 0, MaxUnits } }

InitIndex ==
    /\ \E offers \in [IndexStores -> IndexOffers] :
           Constructed([stores |-> [s \in IndexStores |-> StoreOf(offers[s])],
                        travel_times |-> NoLegs,
                        shopping_list |-> ListOf([product_id \in CostProducts |-> 0]),
                        shopper_location |-> Location(0, 0),
                        customer_location |-> Location(0, 0)], 1)
    /\ pc = "index"

\* precompute_data; the position tells the first call from a later one
precompute_data_call ==
    /\ pc \in { "index", "indexed", "reindexed" }
    /\ \E iter \in IterationOrders(DOMAIN stores) :
           product_to_stores' = build_inverted_list(iter)
    /\ pc' = IF pc = "index" THEN "indexed" ELSE "reindexed"
    /\ UNCHANGED << stores, travel_times, query, min_cost, dj, min_time_route,
                    found_upper_bound, chan, workers, linear_skyline, unchanged_count,
                    route, update, result, returned >>

NextIndex == precompute_data_call

SpecIndex == InitIndex /\ [][NextIndex]_vars

\* The stores that sell a product and hold at least one unit of it
SellersInStock(product_id) ==
    { s \in DOMAIN stores :
        /\ product_id \in DOMAIN stores[s].products
        /\ product_id \in DOMAIN stores[s].inventory
        /\ stores[s].inventory[product_id] > 0 }

\* C33: after precompute_data, and after any further call of it, the index
\* lists for every product exactly the stores that sell it with inventory
\* above zero, each once, with the store's unit cost, in ascending order of
\* cost; a product no store has in stock has no list.  The lists of a
\* rebuilt index are therefore those of the first, up to the order of stores
\* of equal cost.
C33_IndexRebuilt ==
    pc \in { "indexed", "reindexed" } =>
        /\ DOMAIN product_to_stores
             = { product_id \in CostProducts : SellersInStock(product_id) # {} }
        /\ \A product_id \in DOMAIN product_to_stores :
               LET entries == product_to_stores[product_id]
               IN  /\ { entries[i].store_id : i \in DOMAIN entries } = SellersInStock(product_id)
                   /\ Len(entries) = Cardinality(SellersInStock(product_id))
                   /\ \A i \in DOMAIN entries :
                          entries[i].cost = stores[entries[i].store_id].products[product_id]
                   /\ \A i, j \in DOMAIN entries : i < j => entries[i].cost <= entries[j].cost

\* The index has been rebuilt for a catalogue in which three stores sell a
\* product, one of them out of stock and the other two at different costs,
\* the dearer one having the smaller store id
C33_Witness ==
    /\ pc = "reindexed"
    /\ \E product_id \in DOMAIN product_to_stores :
           /\ \A s \in DOMAIN stores : product_id \in DOMAIN stores[s].products
           /\ Cardinality(SellersInStock(product_id)) = 2
           /\ \E s, t \in SellersInStock(product_id) :
                  /\ s < t
                  /\ stores[s].products[product_id] > stores[t].products[product_id]

(***************************************************************************)
(* utils::skyline: insert_into_skyline with its linear-domination test,    *)
(* called on the points of a grid from the empty skyline.                  *)
(***************************************************************************)
is_conventionally_dominated(time, cost, dominator_time, dominator_cost) ==
    \/ dominator_time < time /\ dominator_cost <= cost
    \/ dominator_time <= time /\ dominator_cost < cost

\* The index of the first entry with a larger shopping_time, or one past the
\* end (the loop shared by is_linearly_dominated and insert_into_skyline)
insert_position(rt, skyline) ==
    IF \E i \in DOMAIN skyline : rt.shopping_time < skyline[i].shopping_time
    THEN CHOOSE i \in DOMAIN skyline :
             /\ rt.shopping_time < skyline[i].shopping_time
             /\ \A j \in 1 .. i - 1 : ~ (rt.shopping_time < skyline[j].shopping_time)
    ELSE Len(skyline) + 1

\* Mutation of is_linearly_dominated: only the entry at the insertion
\* position is compared, not the one before it
is_linearly_dominated_by_right(rt, skyline) ==
    LET pos == insert_position(rt, skyline)
    IN  /\ skyline # <<>>
        /\ pos <= Len(skyline)
        /\ is_conventionally_dominated(rt.shopping_time, rt.shopping_cost,
                                       skyline[pos].shopping_time,
                                       skyline[pos].shopping_cost)

\* The slope test is computed exactly: y > y1 + (y2 - y1) / (x2 - x1) * (x - x1)
\* with x2 > x1
is_linearly_dominated(rt, skyline) ==
    LET pos == insert_position(rt, skyline)
    IN  /\ skyline # <<>>
        /\ \/ /\ pos <= Len(skyline)
              /\ is_conventionally_dominated(rt.shopping_time, rt.shopping_cost,
                                             skyline[pos].shopping_time,
                                             skyline[pos].shopping_cost)
           \/ /\ pos > 1
              /\ is_conventionally_dominated(rt.shopping_time, rt.shopping_cost,
                                             skyline[pos - 1].shopping_time,
                                             skyline[pos - 1].shopping_cost)
           \/ /\ pos > 1
              /\ pos <= Len(skyline)
              /\ LET left == skyline[pos - 1]
                     right == skyline[pos]
                 IN  /\ right.shopping_time > left.shopping_time
                     /\ (rt.shopping_cost - left.shopping_cost)
                          * (right.shopping_time - left.shopping_time)
                        > (right.shopping_cost - left.shopping_cost)
                          * (rt.shopping_time - left.shopping_time)

\* is_dominated_by_skyline(&skyline[i], skyline)
is_dominated_by_skyline(i, skyline) ==
    \E j \in DOMAIN skyline :
        /\ j # i
        /\ is_conventionally_dominated(skyline[i].shopping_time, skyline[i].shopping_cost,
                                       skyline[j].shopping_time, skyline[j].shopping_cost)

\* The removal loop of insert_into_skyline
RECURSIVE remove_dominated(_, _, _)
remove_dominated(skyline, i, pos) ==
    IF i > Len(skyline) THEN skyline
    ELSE IF i # pos /\ is_dominated_by_skyline(i, skyline)
         THEN remove_dominated(RemoveAt(skyline, i), i, IF i < pos THEN pos - 1 ELSE pos)
         ELSE remove_dominated(skyline, i + 1, pos)

insert_into_skyline(skyline, rt) ==
    IF is_linearly_dominated(rt, skyline)
    THEN [skyline |-> skyline, inserted |-> FALSE]
    ELSE LET pos == insert_position(rt, skyline)
         IN  [skyline |-> remove_dominated(SubSeq(skyline, 1, pos - 1) \o << rt >>
                                             \o SubSeq(skyline, pos, Len(skyline)),
                                           1, pos),
              inserted |-> TRUE]

MaxPointTime == 2

MaxPointCost == 3

MaxSkylineLen == 3

GridRoutes ==
    { ShoppingRoute(<< 1 >>, shopping_time, shopping_cost) :
        shopping_time \in 0 .. MaxPointTime, shopping_cost \in 0 .. MaxPointCost }

InitInsert ==
    /\ Constructed(SplitForced, 1)
    /\ pc = "insert"

\* A call of insert_into_skyline, while the skyline is short of MaxSkylineLen
insert_into_skyline_call ==
    /\ pc = "insert"
    /\ Len(linear_skyline) < MaxSkylineLen
    /\ \E rt \in GridRoutes :
           LET outcome == insert_into_skyline(linear_skyline, rt)
           IN  /\ route' = rt
               /\ linear_skyline' = outcome.skyline
               /\ update' = outcome.inserted
    /\ UNCHANGED << stores, travel_times, product_to_stores, query, pc, min_cost, dj,
                    min_time_route, found_upper_bound, chan, workers, unchanged_count,
                    result, returned >>

NextInsert == insert_into_skyline_call

SpecInsert == InitInsert /\ [][NextInsert]_vars

PointDominated(rt, skyline) ==
    \E i \in DOMAIN skyline :
        is_conventionally_dominated(rt.shopping_time, rt.shopping_cost,
                                    skyline[i].shopping_time, skyline[i].shopping_cost)

\* C34: after every call of insert_into_skyline, starting from the empty
\* skyline, the skyline is sorted in ascending shopping_time and no element
\* is conventionally dominated by another; a route that an element of the
\* skyline conventionally dominates is rejected with false and the skyline
\* stays as it was.
C34_Step ==
    pc = "insert" =>
        /\ \A i, j \in DOMAIN linear_skyline' :
               i < j => linear_skyline'[i].shopping_time <= linear_skyline'[j].shopping_time
        /\ \A i \in DOMAIN linear_skyline' : ~ is_dominated_by_skyline(i, linear_skyline')
        /\ PointDominated(route', linear_skyline) =>
               /\ update' = FALSE
               /\ linear_skyline' = linear_skyline

C34_InsertKeepsSkyline == [][C34_Step]_vars

\* A route dominated by the first of two skyline entries, and not by the
\* second, its neighbour in time, has been rejected
C34_Witness ==
    /\ pc = "insert"
    /\ Len(linear_skyline) >= 2
    /\ update = FALSE
    /\ PointDominated(route, << linear_skyline[1] >>)
    /\ ~ PointDominated(route, << linear_skyline[2] >>)
    /\ route.shopping_time < linear_skyline[2].shopping_time

\* Worker w pops a candidate off its non-empty queue
PopsCandidate(w) ==
    /\ workers[w].pc = "pop"
    /\ workers[w].queue # {}
    /\ workers'[w] # workers[w]
    /\ \A v \in DOMAIN workers \ {w} : workers'[v] = workers[v]

\* C35: the pop of a worker's queue returns a candidate whose shopping_time
\* is minimal among the candidates in the queue, and takes that candidate
\* out of the queue; in RouteCandidate's order a candidate is greater exactly
\* when its shopping_time is smaller.
C35_Step ==
    \A w \in DOMAIN workers :
        PopsCandidate(w) =>
            /\ workers'[w].route_candidate \in workers[w].queue
            /\ workers'[w].queue = workers[w].queue \ {workers'[w].route_candidate}
            /\ \A other \in workers[w].queue :
                   workers'[w].route_candidate.shopping_time <= other.shopping_time
            /\ \A a, b \in workers[w].queue :
                   RouteCandidate_cmp(a, b) = "Greater" <=> a.shopping_time < b.shopping_time

C35_PopsLeastTime == [][C35_Step]_vars

\* A worker holds a popped candidate while a slower candidate waits in its
\* queue
C35_Witness ==
    \E w \in DOMAIN workers :
        /\ workers[w].pc = "process"
        /\ \E other \in workers[w].queue :
               workers[w].route_candidate.shopping_time < other.shopping_time

(***************************************************************************)
(* ShoppingList::can_be_fulfilled_by and create_fulfillable_list, called   *)
(* on every list and catalogue of the family of the cost optimizer.        *)
(***************************************************************************)
\* ShoppingList::add_item: a quantity of zero is ignored
add_item(items, product_id, quantity) ==
    IF quantity > 0
    THEN [q \in DOMAIN items \cup {product_id} |->
             (IF q \in DOMAIN items THEN items[q] ELSE 0)
             + (IF q = product_id THEN quantity ELSE 0)]
    ELSE items

\* The inventory of one product summed over the stores of S that sell it
RECURSIVE inventory_over(_, _, _)
inventory_over(catalogue, S, product_id) ==
    IF S = {} THEN 0
    ELSE LET s == CHOOSE t \in S : TRUE
         IN  (IF has_product(catalogue[s], product_id)
              THEN get_inventory_level(catalogue[s], product_id) ELSE 0)
             + inventory_over(catalogue, S \ {s}, product_id)

\* The map total_available both functions build: an entry for every product
\* of the list that some store sells
total_available(items, catalogue) ==
    [product_id \in { q \in DOMAIN items :
                        \E s \in DOMAIN catalogue : has_product(catalogue[s], q) } |->
        inventory_over(catalogue, DOMAIN catalogue, product_id)]

can_be_fulfilled_by(items, catalogue) ==
    LET available == total_available(items, catalogue)
    IN  \A product_id \in DOMAIN items :
            /\ product_id \in DOMAIN available
            /\ ~ (available[product_id] < items[product_id])

\* Mutation of create_fulfillable_list: the required quantity is kept
create_fulfillable_list_at_required(items, catalogue) ==
    LET available == total_available(items, catalogue)
    IN  [product_id \in { q \in DOMAIN items : q \in DOMAIN available /\ available[q] > 0 } |->
            items[product_id]]

\* The loop of create_fulfillable_list over the products still to visit
RECURSIVE fulfillable_items(_, _, _, _)
fulfillable_items(fulfillable, todo, items, available) ==
    IF todo = {} THEN fulfillable
    ELSE LET product_id == CHOOSE q \in todo : TRUE
             next == IF product_id \in DOMAIN available /\ available[product_id] > 0
                     THEN add_item(fulfillable, product_id,
                                   Min(items[product_id], available[product_id]))
                     ELSE fulfillable
         IN  fulfillable_items(next, todo \ {product_id}, items, available)

create_fulfillable_list(items, catalogue) ==
    fulfillable_items([q \in {} |-> 0], DOMAIN items, items,
                      total_available(items, catalogue))

InitList ==
    /\ \E offers \in [CostStores -> StoreOffers],
          wanted \in [CostProducts -> 0 .. MaxUnits] :
           Constructed([stores |-> [s \in CostStores |-> StoreOf(offers[s])],
                        travel_times |-> NoLegs,
                        shopping_list |-> ListOf(wanted),
                        shopper_location |-> Location(0, 0),
                        customer_location |-> Location(0, 0)], 1)
    /\ pc = "list"

\* create_fulfillable_list called on the list of the query; result holds the
\* list it returns
create_fulfillable_list_call ==
    /\ pc = "list"
    /\ result' = create_fulfillable_list(query.shopping_list, stores)
    /\ pc' = "listed"
    /\ UNCHANGED << stores, travel_times, product_to_stores, query, min_cost, dj,
                    min_time_route, found_upper_bound, chan, workers, linear_skyline,
                    unchanged_count, route, update, returned >>

NextList == create_fulfillable_list_call

SpecList == InitList /\ [][NextList]_vars

\* The units of a product held by the stores that sell it
UnitsOnSale(product_id) ==
    LET sellers == { s \in DOMAIN stores : product_id \in DOMAIN stores[s].products }
        held == [s \in sellers |-> IF product_id \in DOMAIN stores[s].inventory
                                   THEN stores[s].inventory[product_id] ELSE 0]
    IN  SumOver(held, sellers)

\* C36: the list create_fulfillable_list returns can be fulfilled by the same
\* stores; it holds exactly the products of the list whose total inventory
\* over the stores selling them is positive, each at the smaller of the
\* required quantity and that total.
C36_FulfillableList ==
    pc = "listed" =>
        /\ can_be_fulfilled_by(result, stores)
        /\ DOMAIN result
             = { product_id \in DOMAIN query.shopping_list : UnitsOnSale(product_id) > 0 }
        /\ \A product_id \in DOMAIN result :
               /\ result[product_id] <= query.shopping_list[product_id]
               /\ result[product_id] <= UnitsOnSale(product_id)
               /\ \/ result[product_id] = query.shopping_list[product_id]
                  \/ result[product_id] = UnitsOnSale(product_id)

\* A list of two products has been filtered: one product is cut to the units
\* on sale and the other is dropped because its sellers are out of stock
C36_Witness ==
    /\ pc = "listed"
    /\ Cardinality(DOMAIN query.shopping_list) = 2
    /\ Cardinality(DOMAIN result) = 1
    /\ ~ can_be_fulfilled_by(query.shopping_list, stores)
    /\ \E product_id \in DOMAIN result :
           result[product_id] < query.shopping_list[product_id]
    /\ \E product_id \in DOMAIN query.shopping_list \ DOMAIN result :
           \E s \in DOMAIN stores : product_id \in DOMAIN stores[s].products

(***************************************************************************)
(* The solver under fair scheduling: the main thread (the search for R0    *)
(* and the receive loop) and each of the two worker threads keep running   *)
(* while they have a step to take.  The weak fairness of worker_process(w) *)
(* and of the search loop is stated on positions: worker_process(w) is     *)
(* enabled exactly at workers[w].pc = "process" and leaves that position;  *)
(* the search is enabled exactly at pc = "dijkstra" and each of its pops   *)
(* changes dj.                                                             *)
(***************************************************************************)
SpecFair ==
    /\ Spec
    /\ WF_vars(aggregator_recv \/ aggregator_return)
    /\ \A w \in {1, 2} : WF_vars(worker_pop(w))
    /\ \A w \in {1, 2} : []<>(workers[w].pc # "process")
    /\ ([]<>(pc # "dijkstra") \/ []<><<dj' # dj>>_vars)

\* C37: every invocation of solve_with_parallel that has started its search
\* or spawned its threads eventually returns.
C37_EventuallyReturns == (pc \in { "dijkstra", "recv" }) ~> (pc = "done")

\* An invocation has returned a skyline after both workers ran: one was
\* stopped by the flag with candidates left, the other emptied its queue
C37_Witness ==
    /\ pc = "done"
    /\ result # <<>>
    /\ found_upper_bound
    /\ \E w, v \in DOMAIN workers :
           /\ workers[w].pc = "exited" /\ workers[w].queue # {}
           /\ workers[v].pc = "exited" /\ workers[v].queue = {}
                                        /\ workers[v].visited_route # {}

\* C38: once the termination flag is set, a worker sends at most one further
\* route before it exits.  While the invocation runs the flag stays set; a
\* route is put on the channel only by a worker finishing the candidate it
\* holds, one route at most, after which the worker is back at its pop or has
\* exited; and a worker at its pop sends nothing and exits.
C38_Step ==
    (found_upper_bound /\ pc = "recv" /\ pc' = "recv") =>
        /\ found_upper_bound'
        /\ \/ chan' = chan
           \/ chan # <<>> /\ chan' = Tail(chan)
           \/ /\ Len(chan') = Len(chan) + 1
              /\ SubSeq(chan', 1, Len(chan)) = chan
              /\ \E w \in DOMAIN workers :
                     /\ workers[w].pc = "process"
                     /\ workers'[w] # workers[w]
                     /\ Last(chan').stores = workers[w].route_candidate.stores
        /\ \A w \in DOMAIN workers :
               workers'[w] # workers[w] =>
                   /\ workers[w].pc \in { "pop", "process" }
                   /\ workers[w].pc = "pop" => (chan' = chan /\ workers'[w].pc = "exited")
                   /\ workers[w].pc = "process" => workers'[w].pc \in { "pop", "exited" }

C38_OneMoreRoute == [][C38_Step]_vars

\* The flag is set while a worker holds a popped candidate that satisfies the
\* list: the worker is about to send its one further route; the other worker
\* has exited
C38_Witness ==
    /\ pc = "recv"
    /\ found_upper_bound
    /\ \E w, v \in DOMAIN workers :
           /\ workers[w].pc = "process"
           /\ satisfies_list_with_inventory(workers[w].route_candidate.stores,
                                            query.shopping_list)
           /\ workers[v].pc = "exited"

\* The skyline holds the route X or a route that conventionally dominates it
Covers(skyline, X) ==
    \E i \in DOMAIN skyline : skyline[i] = X \/ conventionally_dominates(skyline[i], X)

\* C39: every route handed to update_skyline is covered by the skyline from
\* then on, and by the sorted skyline that is returned: the skyline holds the
\* route or a route that conventionally dominates it.  Each call covers its
\* route, and whatever the skyline covered before a call, or before the final
\* sort, is covered after it.
C39_Step ==
    /\ (pc = "skyline" /\ pc' = "skyline") =>
           /\ Covers(linear_skyline', route')
           /\ \A X \in AnyRoutes : Covers(linear_skyline, X) => Covers(linear_skyline', X)
    /\ (pc = "skyline" /\ pc' = "done") =>
           \A X \in AnyRoutes : Covers(linear_skyline, X) => Covers(result', X)

C39_ReceivedStaysCovered == [][C39_Step]_vars

\* The route received last is in the returned skyline and dominates a route
\* X that is not in it, while X dominates a route Y: Y stays covered, through
\* the last route
C39_Witness ==
    /\ pc = "done"
    /\ update
    /\ route \in Range(result)
    /\ \E X \in AnyRoutes :
           /\ X \notin Range(result)
           /\ conventionally_dominates(route, X)
           /\ \E Y \in AnyRoutes : conventionally_dominates(X, Y) /\ Covers(result, Y)

====
